---------------------------- MODULE Spec2Model ----------------------------
(***************************************************************************)
(* Protocol bridges of vamuscari/dev-mcps.                                 *)
(*                                                                         *)
(* Part I  : the nested-agent supervisor (orchestrator/src/codex.rs):      *)
(*           Manager, its per-agent read loop, rpc_call and approvals.     *)
(* Part II : the language-server pool (lsp/src/main.rs, lsp/src/ls.rs).    *)
(* Part III: one LanguageServerManager (lsp/src/ls.rs): start, handshake,  *)
(*           request, notify, shutdown, framing.                           *)
(* Part IV : the handshake loop of Manager::initialize                     *)
(*           (orchestrator/src/codex.rs).                                  *)
(* Part V  : the tables of the LanguageServerPool (lsp/src/main.rs).       *)
(* Part VI : the DapAdapterManager (dap/src/da.rs).                        *)
(* Part VII: the OrchestratorServer of the orchestrator binary             *)
(*           (orchestrator/src/main.rs).                                   *)
(* Part VIII: the conversation id a Manager remembers for an agent         *)
(*           (orchestrator/src/codex.rs).                                  *)
(* Part IX : the replies of handle_server_request (lsp/src/ls.rs).         *)
(* Part X  : the tool advertisement of the LSP and DAP bridges             *)
(*           (lsp/src/mcp.rs, dap/src/main.rs).                            *)
(* Part XI : the tools/call dispatch of the four bridges.                  *)
(* Part XII: the position queries on an LSIF index (lsif/src/lsif.rs).     *)
(***************************************************************************)
EXTENDS Integers, Sequences, FiniteSets, TLC

(***************************************************************************)
(* Bounds of the model                                                     *)
(***************************************************************************)
\* child processes that spawn_agent may create
NumProcs == 2
\* rpc_call invocations
MaxCalls == 2
\* server-initiated requests and notifications read from all agents together
MaxInbound == 2

\* spawn_agent and rpc_call invocations and inbound frames together
MaxWork == 4

Procs == 1..NumProcs
Calls == 1..MaxCalls

\* ids a client may supply to spawn_agent; "" stands for id = None / empty
AgentIds == {"agent-1"}
\* request ids an agent puts on its server-initiated requests
RequestIds == {17}
Decisions == {"allow", "deny"}
ApprovalMethods == {"applyPatchApproval", "execCommandApproval"}
RequestMethods == ApprovalMethods \cup {"otherRequest"}

\* no process / no entry / empty channel
NoProc == 0
Empty == [kind |-> "empty"]

(***************************************************************************)
(* Part I - state of the orchestrator Manager                              *)
(***************************************************************************)
VARIABLES
    NEXT,          \* static AtomicI64 of next_id
    agents,        \* Manager.agents : agent id -> process (NoProc when absent)
    approvals,     \* Manager.approvals : key -> sender half [owner, seq]
    child,         \* per process: "none" | "running" | "exited"
    agentId,       \* Agent.id of the process's record
    pending,       \* Agent.pending : set of request ids holding a sender
    loopPc,        \* position of the process's read loop
    cur,           \* the approval request the read loop is serving
    apprRx,        \* receiver half of the read loop's approval channel
    replies,       \* responses the read loop wrote to the agent's stdin
    events,        \* per agent process: what notify_codex_event got, in order
    callPc,        \* position of each rpc_call
    callProc,      \* the agent (process) the rpc_call runs against
    callId,        \* the id the rpc_call allocated
    chan,          \* receiver half of the rpc_call's oneshot channel
    returned,      \* how each rpc_call returned: "", "Ok" or "Err"
    inbound,       \* number of requests/notifications read so far
    timedOut,      \* history: keys whose approval timed out since registered
    decided        \* history: keys decided since they were registered

ovars == <<NEXT, agents, approvals, child, agentId, pending, loopPc, cur,
           apprRx, replies, events, callPc, callProc, callId, chan, returned,
           inbound, timedOut, decided>>

VARIABLE
    UPSTREAM_PEER  \* mcp.rs: whether the OnceCell holds the upstream peer
pvars == <<UPSTREAM_PEER>>

VARIABLE
    lspUpstream    \* the notifications the LSP bridge has sent to its client
uvars == <<lspUpstream>>

VARIABLE
    answered       \* the last request given to handle_server_request, its frame
hvars == <<answered>>

VARIABLE
    advertised     \* the last tools/list: capability record and tools returned
avars == <<advertised>>

VARIABLE
    called         \* the last tools/call on a bridge: inputs and reply
kvars == <<called>>

VARIABLE
    queried        \* the last position query on the index and the range chosen
qvars == <<queried>>

(***************************************************************************)
(* Part II - state of the language-server pool                             *)
(***************************************************************************)
VARIABLES
    poolLock,      \* the Mutex of with_language_pool: the call holding it
    doc_servers,   \* LanguageServerPool.doc_servers : uri -> command
    last_server,   \* LanguageServerPool.last_server
    managers,      \* LanguageServerPool.managers : command -> manager
    helper,        \* per helper process: "none" | "running" | "exited"
    frames,        \* every frame written to a helper's stdin, in order
    lcall,         \* per tool call: its position and its locals
    srvReqs        \* server-initiated requests read so far

lvars == <<poolLock, doc_servers, last_server, managers, helper, frames,
           lcall, srvReqs>>

(***************************************************************************)
(* Part III - state of one LanguageServerManager (lsp/src/ls.rs)           *)
(***************************************************************************)
VARIABLES
    lsm,           \* the manager: child, streams, next_id, capabilities, ...
    cproc,         \* per helper process: "none" | "running" | "hung" | "exited"
    wire,          \* the frames written to the child spawned last, in order
    op,            \* the call on the manager that is running, and its locals
    failed,        \* history: processes on which a read failed in a request
    nOps,          \* calls made on the manager so far
    nReads         \* inbound messages read so far

cvars == <<lsm, cproc, wire, op, failed, nOps, nReads>>

(***************************************************************************)
(* Part IV - state of Manager::initialize (orchestrator/src/codex.rs)      *)
(***************************************************************************)
VARIABLES
    initPc,        \* "idle" | "reading" | "ok" | "err"
    initId,        \* the id of the initialize request
    initReads,     \* the messages the handshake loop read and what it did
    initWrites     \* the frames initialize wrote to the agent

ivars == <<initPc, initId, initReads, initWrites>>

(***************************************************************************)
(* Part V - the tables of the LanguageServerPool (lsp/src/main.rs)         *)
(***************************************************************************)
VARIABLES
    tbl,           \* the pool: default_cmd, the maps, last_server
    resolved,      \* the last resolve_command: its arguments and its result
    down           \* shutdown_all: whether it ran, its result, the managers
                   \* it found and those whose shutdown it called

tvars == <<tbl, resolved, down>>

(***************************************************************************)
(* Part VI - state of the DapAdapterManager (dap/src/da.rs)                *)
(***************************************************************************)
VARIABLES
    dap,        \* the manager: cmd, child, next_seq, capabilities
    dproc,      \* adapter processes: what each runs and whether it lives
    dres,       \* the last call on the manager and how it ended
    nDap        \* calls made so far
dvars == <<dap, dproc, dres, nDap>>

(***************************************************************************)
(* Part VII - state of the OrchestratorServer (orchestrator/src/main.rs)   *)
(***************************************************************************)
VARIABLES
    sagents,    \* State.agents: agent id -> child process
    sproc,      \* per child: whether it runs, the lines in its stdout pipe,
                \* the lines in its mpsc channel, its reader thread, and the
                \* forwarded call that holds the lock of the receiver
    fwd,        \* forwarded tool calls: position, child, result
    kres,       \* the last kill_agent: its argument and its result
    nLines      \* lines the agents have written so far
svars == <<sagents, sproc, fwd, kres, nLines>>

(***************************************************************************)
(* Part VIII - the remembered conversation id (orchestrator/src/codex.rs)  *)
(***************************************************************************)
VARIABLES
    last_conversation_id,   \* Agent.last_conversation_id, per agent
    conv,                   \* the conversation calls: kind, agent, payload,
                            \* what was sent, the reply, position
    lastReply               \* per agent: the conversation id of the latest
                            \* successful new/resume reply that carried one
mvars == <<last_conversation_id, conv, lastReply>>

nonOrch == <<pvars, lvars, cvars, ivars, tvars, dvars, svars, mvars, uvars, hvars, avars, kvars, qvars>>
nonPool == <<ovars, pvars, cvars, ivars, tvars, dvars, svars, mvars, uvars, hvars, avars, kvars, qvars>>
nonClient == <<ovars, pvars, lvars, ivars, tvars, dvars, svars, mvars, uvars, hvars, avars, kvars, qvars>>
nonInit == <<ovars, pvars, lvars, cvars, tvars, dvars, svars, mvars, uvars, hvars, avars, kvars, qvars>>
nonTables == <<ovars, pvars, lvars, cvars, ivars, dvars, svars, mvars, uvars, hvars, avars, kvars, qvars>>
nonDap == <<ovars, pvars, lvars, cvars, ivars, tvars, svars, mvars, uvars, hvars, avars, kvars, qvars>>
nonServer == <<ovars, pvars, lvars, cvars, ivars, tvars, dvars, mvars, uvars, hvars, avars, kvars, qvars>>
nonConv == <<ovars, pvars, lvars, cvars, ivars, tvars, dvars, svars, uvars, hvars, avars, kvars, qvars>>

nonPeer == <<ovars, lvars, cvars, ivars, tvars, dvars, svars, mvars, uvars, hvars, avars, kvars, qvars>>

nonRequest == <<ovars, pvars, lvars, cvars, ivars, tvars, dvars, svars, mvars, uvars, avars, kvars, qvars>>

nonAdvert == <<ovars, pvars, lvars, cvars, ivars, tvars, dvars, svars, mvars, uvars, hvars, kvars, qvars>>

nonCall == <<ovars, pvars, lvars, cvars, ivars, tvars, dvars, svars, mvars, uvars, hvars, avars, qvars>>

nonQuery == <<ovars, pvars, lvars, cvars, ivars, tvars, dvars, svars, mvars, uvars, hvars, avars, kvars>>

vars == <<ovars, pvars, lvars, cvars, ivars, tvars, dvars, svars, mvars, uvars, hvars, avars, kvars, qvars>>

\* spawn_agent: "agent-<micros since epoch>" when no id is supplied
AutoId(p) == "agent-" \o ToString(1000 + p)

AllIds == AgentIds \cup {AutoId(p) : p \in Procs \ {1}}

\* format!("{}:{}", agent.id, req_id_str)
ApprovalKey(aid, rid) == aid \o ":" \o ToString(rid)

AllKeys == {ApprovalKey(a, r) : a \in AllIds, r \in RequestIds}

\* Manager::next_id: fetch_add(1) returns the old value
next_id == NEXT

\* Manager::list_agents
list_agents == {a \in AllIds : agents[a] # NoProc}

\* Manager::list_pending_approvals
list_pending_approvals == DOMAIN approvals

\* HashMap::insert / HashMap::remove on the approvals map
MapPut(m, k, v) == [x \in DOMAIN m \cup {k} |-> IF x = k THEN v ELSE m[x]]
MapDel(m, k) == [x \in DOMAIN m \ {k} |-> m[x]]

\* a write to the agent's stdin succeeds while the child has it open
WriteOk(p) == child[p] = "running"

\* the sender held under a key still has its receiver waiting
SenderLive(tx) ==
    /\ loopPc[tx.owner] \in {"registered", "waiting"}
    /\ cur[tx.owner].seq = tx.seq
    /\ apprRx[tx.owner] = "open"

\* the stimuli consumed so far: calls started and frames read
Work == Cardinality({p \in Procs : child[p] # "none"})
        + Cardinality({c \in Calls : callPc[c] # "idle"}) + inbound

OrchInit ==
    /\ NEXT = 1
    /\ UPSTREAM_PEER = FALSE
    /\ agents = [a \in AllIds |-> NoProc]
    /\ approvals = <<>>
    /\ child = [p \in Procs |-> "none"]
    /\ agentId = [p \in Procs |-> ""]
    /\ pending = [p \in Procs |-> {}]
    /\ loopPc = [p \in Procs |-> "none"]
    /\ cur = [p \in Procs |-> [rid |-> 0, seq |-> 0]]
    /\ apprRx = [p \in Procs |-> "none"]
    /\ replies = [p \in Procs |-> <<>>]
    /\ events = [p \in Procs |-> <<>>]
    /\ callPc = [c \in Calls |-> "idle"]
    /\ callProc = [c \in Calls |-> NoProc]
    /\ callId = [c \in Calls |-> 0]
    /\ chan = [c \in Calls |-> Empty]
    /\ returned = [c \in Calls |-> ""]
    /\ inbound = 0
    /\ timedOut = {}
    /\ decided = {}


(***************************************************************************)
(* Part I - operations of the Manager                                      *)
(***************************************************************************)

\* spawn_agent: the id the record is stored under
SpawnId(p, id) == IF id # "" THEN id ELSE AutoId(p)

\* spawn_agent(id, cwd): start a child, run the handshake (initialize takes
\* one id from NEXT), start the read loop and insert the record.  hs is how
\* the handshake ended: "ok", "closed" (the child closed its output) or
\* "error" (an error reply or a transport error; the child keeps running).
spawn_agent(p, id, hs) ==
    /\ child[p] = "none"
    /\ \A q \in Procs : q < p => child[q] # "none"
    /\ Work < MaxWork
    /\ NEXT' = NEXT + 1
    /\ agentId' = [agentId EXCEPT ![p] = SpawnId(p, id)]
    /\ child' = [child EXCEPT ![p] = IF hs = "closed" THEN "exited" ELSE "running"]
    /\ IF hs = "ok"
         THEN /\ loopPc' = [loopPc EXCEPT ![p] = "read"]
              /\ agents' = [agents EXCEPT ![SpawnId(p, id)] = p]
         ELSE UNCHANGED <<loopPc, agents>>
    /\ UNCHANGED <<approvals, pending, cur, apprRx, replies, events, callPc,
                   callProc, callId, chan, returned, inbound, timedOut, decided>>
    /\ UNCHANGED nonOrch

\* require_agent: what a call naming id gets
require_agent(ags, id) == IF ags[id] # NoProc THEN "Ok" ELSE "agent not found"

remove_agent_keep(ags, id) == ags

\* kill_agent: self.agents.write().await.remove(agent_id)
remove_agent(ags, id) == [ags EXCEPT ![id] = NoProc]

\* what kill_agent(agent_id) returns
kill_result(id) == require_agent(agents, id)

\* kill_agent(agent_id): remove the record and kill its child; an id with
\* no record gives an error and nothing else
kill_agent(id) ==
    /\ IF agents[id] # NoProc
         THEN /\ agents' = remove_agent(agents, id)
              /\ child' = [child EXCEPT ![agents[id]] = "exited"]
         ELSE UNCHANGED <<agents, child>>
    /\ UNCHANGED <<NEXT, approvals, agentId, pending, loopPc, cur, apprRx,
                   replies, events, callPc, callProc, callId, chan, returned,
                   inbound, timedOut, decided>>
    /\ UNCHANGED nonOrch

\* the child ends by itself
AgentExit(p) ==
    /\ child[p] = "running"
    /\ child' = [child EXCEPT ![p] = "exited"]
    /\ UNCHANGED <<NEXT, agents, approvals, agentId, pending, loopPc, cur,
                   apprRx, replies, events, callPc, callProc, callId, chan,
                   returned, inbound, timedOut, decided>>
    /\ UNCHANGED nonOrch

\* rpc_call, first part: require_agent, next_id, pending.insert(id, tx)
rpc_call_register(c, id) ==
    /\ callPc[c] = "idle"
    /\ \A b \in Calls : b < c => callPc[b] # "idle"
    /\ Work < MaxWork
    /\ agents[id] # NoProc
    /\ callProc' = [callProc EXCEPT ![c] = agents[id]]
    /\ callId' = [callId EXCEPT ![c] = next_id]
    /\ NEXT' = NEXT + 1
    /\ pending' = [pending EXCEPT ![agents[id]] = @ \cup {next_id}]
    /\ callPc' = [callPc EXCEPT ![c] = "registered"]
    /\ UNCHANGED <<agents, approvals, child, agentId, loopPc, cur, apprRx,
                   replies, events, chan, returned, inbound, timedOut, decided>>
    /\ UNCHANGED nonOrch

\* what rpc_call makes of the value its receiver yields
Outcome(v) == IF v.kind = "result" THEN "Ok" ELSE "Err"

\* rpc_call, second part: w.send(msg); a failed send returns at once (`?`)
\* and the call's locals are gone
rpc_call_send(c) ==
    /\ callPc[c] = "registered"
    /\ IF WriteOk(callProc[c])
         THEN /\ callPc' = [callPc EXCEPT ![c] = "waiting"]
              /\ UNCHANGED <<returned, callProc, callId, chan>>
         ELSE /\ callPc' = [callPc EXCEPT ![c] = "done"]
              /\ returned' = [returned EXCEPT ![c] = "Err"]
              /\ callProc' = [callProc EXCEPT ![c] = NoProc]
              /\ callId' = [callId EXCEPT ![c] = 0]
              /\ chan' = [chan EXCEPT ![c] = Empty]
    /\ UNCHANGED <<NEXT, agents, approvals, child, agentId, pending, loopPc,
                   cur, apprRx, replies, events, inbound, timedOut, decided>>
    /\ UNCHANGED nonOrch

\* rpc_call, third part: rx.await yields what the read loop sent, the call
\* returns it and its locals are gone
rpc_call_return(c) ==
    /\ callPc[c] = "waiting"
    /\ chan[c] # Empty
    /\ returned' = [returned EXCEPT ![c] = Outcome(chan[c])]
    /\ callPc' = [callPc EXCEPT ![c] = "done"]
    /\ callProc' = [callProc EXCEPT ![c] = NoProc]
    /\ callId' = [callId EXCEPT ![c] = 0]
    /\ chan' = [chan EXCEPT ![c] = Empty]
    /\ UNCHANGED <<NEXT, agents, approvals, child, agentId, pending, loopPc,
                   cur, apprRx, replies, events, inbound, timedOut, decided>>
    /\ UNCHANGED nonOrch

\* the call whose sender is stored under request id n
CallOf(n) == {c \in Calls : callPc[c] \in {"registered", "waiting"} /\ callId[c] = n}

\* a read loop that hands a reply to whichever waiter it finds
PendingRemoveAny(pend, key) ==
    IF pend = {} THEN {} ELSE {CHOOSE k \in pend : \A j \in pend : k <= j}

\* read loop: the entries pending.remove(&key) takes out for a reply
\* carrying id key
PendingRemove(pend, key) == IF key \in pend THEN {key} ELSE {}

\* tx.send(v) on every sender in ids; a send to a receiver that was dropped
\* (its rpc_call returned) fails and is ignored
SendAll(ids, v) ==
    [c \in Calls |-> IF callPc[c] \in {"registered", "waiting"} /\ callId[c] \in ids
                       THEN v ELSE chan[c]]

\* read loop: a Response or an Error frame with id n
read_response(p, n, kind) ==
    /\ loopPc[p] = "read"
    /\ child[p] = "running"
    /\ LET hit == PendingRemove(pending[p], n) IN
         /\ pending' = [pending EXCEPT ![p] = @ \ hit]
         /\ chan' = SendAll(hit, [kind |-> kind, id |-> n])
    /\ UNCHANGED <<NEXT, agents, approvals, child, agentId, loopPc, cur,
                   apprRx, replies, events, callPc, callProc, callId, returned,
                   inbound, timedOut, decided>>
    /\ UNCHANGED nonOrch

\* read loop: the entries the teardown drains (std::mem::take of the map)
Drained(pend) == pend

\* read loop: end of stream (None) or a read error (Err(e)): drain and break
read_teardown(p, why) ==
    /\ loopPc[p] = "read"
    /\ \/ why = "agent terminated" /\ child[p] = "exited"
       \/ why = "agent read error" /\ child[p] = "running"
    /\ pending' = [pending EXCEPT ![p] = @ \ Drained(@)]
    /\ chan' = SendAll(Drained(pending[p]), [kind |-> why])
    /\ loopPc' = [loopPc EXCEPT ![p] = "exited"]
    /\ UNCHANGED <<NEXT, agents, approvals, child, agentId, cur, apprRx,
                   replies, events, callPc, callProc, callId, returned, inbound,
                   timedOut, decided>>
    /\ UNCHANGED nonOrch

\* mcp::set_upstream_peer: OnceCell::set, which takes effect once
set_upstream_peer ==
    /\ ~UPSTREAM_PEER
    /\ UPSTREAM_PEER' = TRUE
    /\ UNCHANGED nonPeer

\* the {method, params} the read loop builds from a Notification frame
NotificationPayload == [method |-> "codex/event", params |-> "params"]

\* mcp::notify_codex_event(_agent_id, _event): the logging-message
\* notifications that go upstream
notify_codex_event(peer, agent_id, event) ==
    IF peer
    THEN <<[level |-> "info", logger |-> "codex/event", data |-> event]>>
    ELSE <<>>

\* read loop: a Notification frame is forwarded upstream
read_notification(p) ==
    /\ loopPc[p] = "read"
    /\ child[p] = "running"
    /\ inbound < MaxInbound
    /\ Work < MaxWork
    /\ inbound' = inbound + 1
    /\ events' = [events EXCEPT ![p] =
                      Append(@, [kind |-> "notification", agentId |-> agentId[p],
                                 key |-> "", proc |-> p, seq |-> 0,
                                 upstream |-> notify_codex_event(
                                     UPSTREAM_PEER, agentId[p],
                                     NotificationPayload)])]
    /\ UNCHANGED <<NEXT, agents, approvals, child, agentId, pending, loopPc,
                   cur, apprRx, replies, callPc, callProc, callId, chan, returned,
                   timedOut, decided>>
    /\ UNCHANGED nonOrch

\* the key of the approval request the read loop of p is serving
CurKey(p) == ApprovalKey(agentId[p], cur[p].rid)

\* a read loop that does not register the key before it goes on
RegisterApprovalSkip(appr, key, tx) == appr

\* read loop: approvals.lock().await.insert(key, tx)
RegisterApproval(appr, key, tx) == MapPut(appr, key, tx)

\* HashMap::insert drops the sender it replaces: its receiver sees the
\* channel closed
DropReplaced(key) ==
    [q \in Procs |->
        IF /\ key \in DOMAIN approvals
           /\ approvals[key].owner = q
           /\ SenderLive(approvals[key])
          THEN "closed" ELSE apprRx[q]]

\* w.send(resp) of the read loop: the frame reaches the agent if its stdin
\* is open, otherwise the error is logged and dropped
WriteReply(p, r) ==
    IF WriteOk(p) THEN [replies EXCEPT ![p] = Append(@, r)] ELSE replies

\* read loop: a Request frame with id rid; an approval method registers the
\* key, any other method is answered with {} at once
read_request(p, rid, method) ==
    /\ loopPc[p] = "read"
    /\ child[p] = "running"
    /\ inbound < MaxInbound
    /\ Work < MaxWork
    /\ inbound' = inbound + 1
    /\ IF method \in ApprovalMethods
         THEN LET key == ApprovalKey(agentId[p], rid)
                  tx == [owner |-> p, seq |-> cur[p].seq + 1]
              IN /\ approvals' = RegisterApproval(approvals, key, tx)
                 /\ apprRx' = [DropReplaced(key) EXCEPT ![p] = "open"]
                 /\ cur' = [cur EXCEPT ![p] = [rid |-> rid, seq |-> tx.seq]]
                 /\ loopPc' = [loopPc EXCEPT ![p] = "registered"]
                 /\ timedOut' = timedOut \ {key}
                 /\ decided' = decided \ {key}
                 /\ UNCHANGED <<events, replies>>
         ELSE /\ events' = [events EXCEPT ![p] =
                      Append(@, [kind |-> "codex_request",
                                 agentId |-> agentId[p], key |-> "",
                                 proc |-> p, seq |-> 0])]
              /\ replies' = WriteReply(p, [rid |-> rid, decision |-> "",
                                           cause |-> "generic", seq |-> 0])
              /\ UNCHANGED <<approvals, apprRx, cur, loopPc, timedOut, decided>>
    /\ UNCHANGED <<NEXT, agents, child, agentId, pending, callPc, callProc,
                   callId, chan, returned>>
    /\ UNCHANGED nonOrch

\* read loop: notify_codex_event with kind approval_request, then the wait
emit_approval_event(p) ==
    /\ loopPc[p] = "registered"
    /\ events' = [events EXCEPT ![p] =
                      Append(@, [kind |-> "approval_request",
                                 agentId |-> agentId[p], key |-> CurKey(p),
                                 proc |-> p, seq |-> cur[p].seq])]
    /\ loopPc' = [loopPc EXCEPT ![p] = "waiting"]
    /\ UNCHANGED <<NEXT, agents, approvals, child, agentId, pending, cur,
                   apprRx, replies, callPc, callProc, callId, chan, returned,
                   inbound, timedOut, decided>>
    /\ UNCHANGED nonOrch

\* read loop: timeout(60 s, rx) ended; the reply is written and the loop
\* reads on.  Ok(Ok(s)) is the decision; the timeout and a dropped sender
\* both fall into `_ => "deny"`.
approval_reply(p, decision, cause) ==
    /\ replies' = WriteReply(p, [rid |-> cur[p].rid, decision |-> decision,
                                 cause |-> cause, seq |-> cur[p].seq])
    /\ loopPc' = [loopPc EXCEPT ![p] = "read"]
    /\ apprRx' = [apprRx EXCEPT ![p] = "none"]

approval_decided(p) ==
    /\ loopPc[p] = "waiting"
    /\ apprRx[p] \in Decisions
    /\ approval_reply(p, apprRx[p], "decided")
    /\ UNCHANGED <<NEXT, agents, approvals, child, agentId, pending, cur,
                   events, callPc, callProc, callId, chan, returned, inbound,
                   timedOut, decided>>
    /\ UNCHANGED nonOrch

approval_timeout(p) ==
    /\ loopPc[p] = "waiting"
    /\ apprRx[p] = "open"
    /\ approval_reply(p, "deny", "timeout")
    /\ timedOut' = timedOut \cup {CurKey(p)}
    /\ UNCHANGED <<NEXT, agents, approvals, child, agentId, pending, cur,
                   events, callPc, callProc, callId, chan, returned, inbound,
                   decided>>
    /\ UNCHANGED nonOrch

approval_cancelled(p) ==
    /\ loopPc[p] = "waiting"
    /\ apprRx[p] = "closed"
    /\ approval_reply(p, "deny", "sender dropped")
    /\ UNCHANGED <<NEXT, agents, approvals, child, agentId, pending, cur,
                   events, callPc, callProc, callId, chan, returned, inbound,
                   timedOut, decided>>
    /\ UNCHANGED nonOrch

\* a decide_approval that looks the sender up and leaves it in the map
DecideRemoveKeep(appr, key) == appr

\* decide_approval: what approvals.remove(key) leaves in the map
DecideRemove(appr, key) == MapDel(appr, key)

\* Manager::decide_approval(key, decision): Ok(true) or Err(key not found)
decide_result(key) == key \in DOMAIN approvals

\* Manager::decide_approval(key, decision); an unknown key is an error and
\* nothing changes
decide_approval(key, d) ==
    /\ UNCHANGED nonOrch
    /\ IF decide_result(key)
         THEN /\ approvals' = DecideRemove(approvals, key)
              /\ apprRx' = IF SenderLive(approvals[key])
                             THEN [apprRx EXCEPT ![approvals[key].owner] = d]
                             ELSE apprRx
              /\ decided' = decided \cup {key}
              /\ UNCHANGED <<NEXT, agents, child, agentId, pending, loopPc, cur,
                             replies, events, callPc, callProc, callId, chan,
                             returned, inbound, timedOut>>
         ELSE UNCHANGED ovars

(***************************************************************************)
(* Part II - the language-server pool (lsp/src/main.rs, lsp/src/ls.rs)     *)
(***************************************************************************)
\* tool calls
MaxLspCalls == 2
\* helper processes ever started
MaxHelpers == 2
\* server-initiated requests read while awaiting responses
MaxServerRequests == 1

LspCalls == 1..MaxLspCalls
HelperProcs == 1..MaxHelpers

NoCmd == ""
\* the command the extension table gives for the document, and a command a
\* client passes as serverCommand
Cmds == {"pylsp", "alt-ls"}
Uris == {"file:///tmp/b.py"}
ExplicitCmds == {NoCmd, "alt-ls"}

DidOpen == "textDocument/didOpen"
DidClose == "textDocument/didClose"
Hover == "textDocument/hover"
Definition == "textDocument/definition"
\* a positional tool, the call passthrough and the notify passthrough
Tools == {"lsp_definition", "lsp_call", "lsp_notify"}
ToolMethods(tool) ==
    IF tool = "lsp_definition" THEN {Definition} ELSE {DidOpen, DidClose, Hover}
\* what build_did_open_params finds on disk
FileStates == {"ok", "too large", "missing"}

\* build_did_open_params: const MAX_INLINE_DOC_BYTES
MAX_INLINE_DOC_BYTES == 2 * 1024 * 1024

\* The documents a call can name: absent, or on disk with a length around
\* the limit.
Files ==
    {[on_disk |-> FALSE, len |-> 0]}
        \cup {[on_disk |-> TRUE, len |-> n] :
                 n \in {MAX_INLINE_DOC_BYTES - 1, MAX_INLINE_DOC_BYTES,
                        MAX_INLINE_DOC_BYTES + 1}}

reject_from_limit(f) ==
    IF ~f.on_disk THEN "missing"
    ELSE IF f.len >= MAX_INLINE_DOC_BYTES THEN "too large"
    ELSE "ok"

\* build_did_open_params: the stat fails for a file that is not there, a
\* length above the limit is refused, anything else is read and inlined.
build_did_open_params(f) ==
    IF ~f.on_disk THEN "missing"
    ELSE IF f.len > MAX_INLINE_DOC_BYTES THEN "too large"
    ELSE "ok"
\* how a start of a helper ends
Handshakes == {"ok", "eof", "no spawn"}

IdleCall ==
    [pc |-> "idle", tool_name |-> "", method |-> "", server_cmd |-> NoCmd,
     uri |-> "", cmd |-> NoCmd, need_open |-> FALSE, unknown |-> FALSE,
     docs0 |-> <<>>, result |-> ""]

\* LanguageServerManager::with_command
NewManager == [child |-> NoProc, next_id |-> 1, current_cmd |-> NoCmd]

LspInit ==
    /\ poolLock = {}
    /\ doc_servers = [u \in Uris |-> NoCmd]
    /\ last_server = NoCmd
    /\ managers = [m \in Cmds |-> NewManager]
    /\ helper = [q \in HelperProcs |-> "none"]
    /\ frames = <<>>
    /\ lcall = [c \in LspCalls |-> IdleCall]
    /\ srvReqs = 0

\* a with_language_pool that does not wait for the mutex
PoolLockIgnored(l) == TRUE

\* with_language_pool: lock.lock() returns once no call holds the mutex
PoolLockFree(l) == l = {}

\* the extension table entry for the document (.py)
ExtCmd(uri) == "pylsp"

\* LanguageServerPool::resolve_command: explicit override, then document
\* ownership, then the extension table (the calls carry no language id)
resolve_command(explicit, uri) ==
    IF explicit # NoCmd THEN explicit
    ELSE IF doc_servers[uri] # NoCmd THEN doc_servers[uri]
    ELSE ExtCmd(uri)

\* LanguageServerPool::has_document
has_document(uri) == doc_servers[uri] # NoCmd

\* LanguageServerPool::associate_document, on doc_servers
associate_document(docs, uri, cmd) == [docs EXCEPT ![uri] = cmd]

\* LanguageServerPool::release_document, on doc_servers
release_document(docs, uri) == [docs EXCEPT ![uri] = NoCmd]

\* release_document: the values last_server can take (values().next() is
\* in hash order)
ReleaseLast(docs, uri, last) ==
    IF docs[uri] = NoCmd THEN {last}
    ELSE LET rest == release_document(docs, uri)
             left == {rest[u] : u \in Uris} \ {NoCmd}
         IN  IF docs[uri] \in left THEN {docs[uri]}
             ELSE IF left = {} THEN {NoCmd} ELSE left

\* handle_lsp_call / handle_tools_call: need_open
NeedOpen(tool, method, known) ==
    CASE tool = "lsp_notify" -> FALSE
      [] tool = "lsp_call"   -> ~(method = DidOpen \/ method = DidClose \/ known)
      [] OTHER               -> ~known

\* the child the manager of cmd holds, and whether it still runs
ChildOf(cmd) == managers[cmd].child
Running(cmd) == ChildOf(cmd) # NoProc /\ helper[ChildOf(cmd)] = "running"

\* the process a start creates: the first one not used yet
FreshProcs ==
    {q \in HelperProcs : helper[q] = "none" /\ \A r \in 1..(q - 1) : helper[r] # "none"}

Frame(c, q, method, id) ==
    [call |-> c, proc |-> q, cmd |-> lcall[c].cmd, method |-> method, id |-> id,
     uri |-> IF method \in {"initialize", "initialized", "response"}
               THEN "" ELSE lcall[c].uri]

\* after the downstream call succeeded: associate_document for a
\* synthesized open (handle_tools_call, handle_lsp_call) and for a didOpen
\* sent by lsp_notify, release_document for a didClose
Associates(c) ==
    lcall[c].need_open \/ (lcall[c].tool_name = "lsp_notify" /\ lcall[c].method = DidOpen)
Releases(c) == lcall[c].method = DidClose

AfterSuccess(c, docs) ==
    LET opened == IF Associates(c)
                    THEN associate_document(docs, lcall[c].uri, lcall[c].cmd)
                    ELSE docs
    IN  IF Releases(c) THEN release_document(opened, lcall[c].uri) ELSE opened

\* the closure given to with_language_pool returns and the mutex is released
Finish(c, res) ==
    /\ lcall' = [lcall EXCEPT ![c].pc = "done", ![c].result = res,
                              ![c].server_cmd = NoCmd, ![c].need_open = FALSE,
                              ![c].docs0 = <<>>]
    /\ poolLock' = poolLock \ {c}

Succeed(c) ==
    /\ Finish(c, "Ok")
    /\ doc_servers' = AfterSuccess(c, doc_servers)
    /\ last_server' \in
          IF Releases(c)
            THEN ReleaseLast(doc_servers, lcall[c].uri, last_server)
            ELSE IF Associates(c) THEN {lcall[c].cmd} ELSE {last_server}

Fail(c) ==
    /\ Finish(c, "Err")
    /\ UNCHANGED <<doc_servers, last_server>>

\* handle_tools_call / handle_lsp_call / handle_lsp_notify up to the first
\* use of the manager: take the pool mutex, resolve_command, (lsp_call with
\* didOpen: associate_document), need_open, build_did_open_params and the
\* entry into with_manager.  file is what build_did_open_params finds.
tool_call_begin(c, tool, method, explicit, uri, file) ==
    /\ lcall[c].pc = "idle"
    /\ \A b \in 1..(c - 1) : lcall[b].pc # "idle"
    /\ PoolLockFree(poolLock)
    /\ LET cmd == resolve_command(explicit, uri)
           known == has_document(uri)
           need == NeedOpen(tool, method, known)
           early == tool = "lsp_call" /\ method = DidOpen
           docs == IF early THEN associate_document(doc_servers, uri, cmd)
                   ELSE doc_servers
           started == [IdleCall EXCEPT !.tool_name = tool, !.method = method,
                          !.server_cmd = explicit, !.uri = uri, !.cmd = cmd,
                          !.need_open = need, !.unknown = ~known,
                          !.docs0 = doc_servers]
       IN  /\ doc_servers' = docs
           /\ IF need /\ build_did_open_params(file) # "ok"
                THEN /\ lcall' = [lcall EXCEPT ![c] =
                                     [started EXCEPT !.pc = "done",
                                         !.result = build_did_open_params(file),
                                         !.server_cmd = NoCmd, !.need_open = FALSE,
                                         !.docs0 = <<>>]]
                     /\ last_server' = IF early THEN cmd ELSE last_server
                     /\ UNCHANGED poolLock
                ELSE /\ lcall' = [lcall EXCEPT ![c] =
                                     [started EXCEPT !.pc = IF need THEN "ensure_open"
                                                            ELSE "ensure_request"]]
                     /\ last_server' = cmd
                     /\ poolLock' = poolLock \cup {c}
    /\ UNCHANGED <<managers, helper, frames, srvReqs>>
    /\ UNCHANGED nonPool

\* LanguageServerManager::ensure_started(Some(cmd)) at the head of notify
\* and request: nothing to do while the child runs; otherwise stop_child (a
\* child that has exited takes no shutdown frame) and start_server, whose
\* handshake ends as hs says
ensure_started(c, hs) ==
    /\ lcall[c].pc \in {"ensure_open", "ensure_request"}
    /\ c \in poolLock
    /\ LET cmd == lcall[c].cmd
           next == IF lcall[c].pc = "ensure_open" THEN "write_open" ELSE "write_request"
       IN  IF Running(cmd)
             THEN /\ hs = "ok"
                  /\ lcall' = [lcall EXCEPT ![c].pc = next]
                  /\ UNCHANGED <<poolLock, doc_servers, last_server, managers,
                                 helper, frames>>
             ELSE IF hs = "no spawn"
               THEN /\ managers' = [managers EXCEPT ![cmd].child = NoProc,
                                                    ![cmd].next_id = 1]
                    /\ Fail(c)
                    /\ UNCHANGED <<helper, frames>>
               ELSE \E q \in FreshProcs :
                    IF hs = "ok"
                      THEN /\ helper' = [helper EXCEPT ![q] = "running"]
                           /\ managers' = [managers EXCEPT ![cmd] =
                                 [child |-> q, next_id |-> 2, current_cmd |-> cmd]]
                           /\ frames' = frames \o <<Frame(c, q, "initialize", 1),
                                                    Frame(c, q, "initialized", 0)>>
                           /\ lcall' = [lcall EXCEPT ![c].pc = next]
                           /\ UNCHANGED <<poolLock, doc_servers, last_server>>
                      ELSE /\ helper' = [helper EXCEPT ![q] = "exited"]
                           /\ managers' = [managers EXCEPT ![cmd].child = NoProc,
                                                           ![cmd].next_id = 1]
                           /\ frames' = Append(frames, Frame(c, q, "initialize", 1))
                           /\ Fail(c)
    /\ UNCHANGED srvReqs
    /\ UNCHANGED nonPool

\* lsm.notify("textDocument/didOpen", payload): write_jsonrpc of the
\* synthesized notification
write_did_open(c) ==
    /\ lcall[c].pc = "write_open"
    /\ c \in poolLock
    /\ IF Running(lcall[c].cmd)
         THEN /\ frames' = Append(frames, Frame(c, ChildOf(lcall[c].cmd), DidOpen, 0))
              /\ lcall' = [lcall EXCEPT ![c].pc = "ensure_request"]
              /\ UNCHANGED <<poolLock, doc_servers, last_server>>
         ELSE /\ Fail(c)
              /\ UNCHANGED frames
    /\ UNCHANGED <<managers, helper, srvReqs>>
    /\ UNCHANGED nonPool

\* lsm.request(method, params): alloc_id and write_jsonrpc, then the call
\* reads; lsm.notify(method, params) of lsp_notify: write_jsonrpc, and the
\* handler finishes
write_request(c) ==
    /\ lcall[c].pc = "write_request"
    /\ c \in poolLock
    /\ LET cmd == lcall[c].cmd
           isNotify == lcall[c].tool_name = "lsp_notify"
           id == IF isNotify THEN 0 ELSE managers[cmd].next_id
       IN  /\ managers' = IF isNotify THEN managers
                          ELSE [managers EXCEPT ![cmd].next_id = @ + 1]
           /\ IF Running(cmd)
                THEN /\ frames' = Append(frames, Frame(c, ChildOf(cmd), lcall[c].method, id))
                     /\ IF isNotify
                          THEN Succeed(c)
                          ELSE /\ lcall' = [lcall EXCEPT ![c].pc = "await"]
                               /\ UNCHANGED <<poolLock, doc_servers, last_server>>
                ELSE /\ Fail(c)
                     /\ UNCHANGED frames
    /\ UNCHANGED <<helper, srvReqs>>
    /\ UNCHANGED nonPool

\* request: read_message returns the response with the request's id
\* (result or error), or fails at the end of the helper's output
read_response_lsp(c, kind) ==
    /\ lcall[c].pc = "await"
    /\ c \in poolLock
    /\ IF kind = "eof" THEN ~Running(lcall[c].cmd) ELSE Running(lcall[c].cmd)
    /\ IF kind = "result" THEN Succeed(c) ELSE Fail(c)
    /\ UNCHANGED <<managers, helper, frames, srvReqs>>
    /\ UNCHANGED nonPool

\* request: read_message returns a server-initiated request;
\* handle_server_request writes its response and the loop goes on
handle_server_request(c) ==
    /\ lcall[c].pc = "await"
    /\ c \in poolLock
    /\ srvReqs < MaxServerRequests
    /\ Running(lcall[c].cmd)
    /\ frames' = Append(frames, Frame(c, ChildOf(lcall[c].cmd), "response", 0))
    /\ srvReqs' = srvReqs + 1
    /\ UNCHANGED <<poolLock, doc_servers, last_server, managers, helper, lcall>>
    /\ UNCHANGED nonPool

\* the helper process exits on its own
HelperExit(q) ==
    /\ helper[q] = "running"
    /\ helper' = [helper EXCEPT ![q] = "exited"]
    /\ UNCHANGED <<poolLock, doc_servers, last_server, managers, frames, lcall, srvReqs>>
    /\ UNCHANGED nonPool

\* ids given to spawn_agent: generated ids are fresh, so up to the names of
\* the ids the first agent has a supplied id and a later one reuses it or
\* gets a generated one
SpawnIds(p) == IF p = 1 THEN AgentIds ELSE AgentIds \cup {""}

\* ids the agent of p may put on a reply: those of the requests it was
\* sent, those of requests sent to other agents, and 0, which stands for
\* every id no request in flight carries
ReplyIds(p) == UNION {pending[q] : q \in Procs} \cup {0}

\* decisions a client passes to decide_approval; on a key that is not
\* registered the decision is not looked at
DecisionsFor(key) == IF decide_result(key) THEN Decisions ELSE {"deny"}

(***************************************************************************)
(* Part III - one LanguageServerManager (lsp/src/ls.rs)                    *)
(*                                                                         *)
(* The manager is used through &mut self, so one call runs at a time.  A   *)
(* call is cut at its blocking reads; every read takes its input from the  *)
(* helper: a message, or one of the transport failures.                    *)
(***************************************************************************)
MaxOps == 2
MaxClientProcs == 2
MaxReads == 2

ClientProcs == 1..MaxClientProcs
DefaultCmd == "pylsp"
Overrides == {NoCmd, "pylsp", "alt-ls"}
OpKinds == {"request", "notify", "shutdown"}

FramingPreferences == {"Auto", "ContentLength", "Newline"}
NoFraming == "None"
FirstLines == {"{", "[", "Content-Length:", "X-Header:"}

\* The ids the helper picks for its own requests and stray replies.
ServerIds == {77}

ReadFailures == {"eof", "malformed", "non-utf8", "unparsable"}
ReadResults == {"msg"} \cup ReadFailures

\* The inbound JSON values as far as the read loops look at them: whether a
\* "method" is present, the "id" (0: absent), and "result" or "error".
Messages(awaited) ==
    {[hasMethod |-> TRUE, id |-> i, body |-> "none"] : i \in {0, awaited} \cup ServerIds}
        \cup {[hasMethod |-> FALSE, id |-> awaited, body |-> b] :
                  b \in {"result", "error"}}
        \cup {[hasMethod |-> FALSE, id |-> i, body |-> "result"] :
                  i \in {0} \cup ServerIds}

initial_read_mode(pref) == IF pref = "Auto" THEN NoFraming ELSE pref

NewClient ==
    [child |-> NoProc, streams |-> FALSE, next_id |-> 1,
     server_capabilities |-> FALSE, write_pref |-> "Auto",
     read_mode |-> NoFraming, current_cmd |-> NoCmd]

IdleOp ==
    [pc |-> "idle", kind |-> "none", override |-> NoCmd, id |-> 0,
     cont |-> "none", cmd |-> NoCmd, result |-> "none"]

ClientInit ==
    /\ lsm = NewClient
    /\ cproc = [q \in ClientProcs |-> "none"]
    /\ wire = <<>>
    /\ op = IdleOp
    /\ failed = {}
    /\ nOps = 0
    /\ nReads = 0

current_write_mode(m) ==
    IF m.write_pref = "Auto"
    THEN IF m.read_mode = NoFraming THEN "ContentLength" ELSE m.read_mode
    ELSE m.write_pref

DetectLengthOnly(line) == "ContentLength"

\* read_detected_message: a first line opening a JSON value means one
\* message per line, a Content-Length header means header framing, any
\* other header block has no Content-Length and is an error.
DetectFraming(line) ==
    IF line \in {"{", "["} THEN "Newline"
    ELSE IF line = "Content-Length:" THEN "ContentLength"
    ELSE NoFraming

\* The first lines a helper can send that the given read mode can frame.
LinesFor(mode) ==
    IF mode = NoFraming THEN FirstLines
    ELSE IF mode = "Newline" THEN {"{"} ELSE {"Content-Length:"}

\* What read_message returns for a first line and the rest of the input.
ReadOutcome(line, res) ==
    IF DetectFraming(line) = NoFraming /\ res \in {"msg", "unparsable"}
    THEN "malformed" ELSE res

\* read_message stores the detected framing once the message is framed and
\* decoded, before the body is parsed as JSON.
read_message_mode(m, line, res) ==
    IF m.read_mode # NoFraming THEN m.read_mode
    ELSE IF ReadOutcome(line, res) \in {"msg", "unparsable"}
         THEN DetectFraming(line) ELSE NoFraming

\* The tests of the read loops of start_server and request, in their order:
\* the id is compared with the awaited one before "method" is looked at.
Classify(msg, awaited) ==
    IF msg.id = awaited THEN "reply"
    ELSE IF msg.hasMethod /\ msg.id # 0 THEN "server_request"
    ELSE "dropped"

ServerAlive(q) == q # NoProc /\ cproc[q] \in {"running", "hung"}

CanWrite == lsm.streams /\ ServerAlive(lsm.child)

\* What the blocked reader can get: anything from a helper that still
\* talks, end of file from one that exited, nothing from a silent one.
Readable(res) ==
    /\ lsm.streams
    /\ lsm.child # NoProc
    /\ \/ cproc[lsm.child] = "running" /\ (res = "msg" => nReads < MaxReads)
       \/ cproc[lsm.child] = "exited" /\ res = "eof"

ClientFrame(kind, method, id) ==
    [proc |-> lsm.child, kind |-> kind, method |-> method, id |-> id,
     framing |-> current_write_mode(lsm)]

\* write_jsonrpc: the frame reaches the helper, or the write fails.
Written(kind, method, id) ==
    IF CanWrite THEN Append(wire, ClientFrame(kind, method, id)) ELSE wire

OpDone(r) == [IdleOp EXCEPT !.kind = op.kind, !.result = r]

\* request / notify / shutdown are entered.
client_call(kind, override) ==
    /\ op.pc = "idle"
    /\ nOps < MaxOps
    /\ kind = "shutdown" => override = NoCmd
    /\ nOps' = nOps + 1
    /\ op' = [IdleOp EXCEPT !.pc = IF kind = "shutdown" THEN "stop" ELSE "ensure",
                            !.kind = kind, !.override = override,
                            !.cont = IF kind = "shutdown" THEN "return" ELSE "none"]
    /\ UNCHANGED <<lsm, cproc, wire, failed, nReads>>
    /\ UNCHANGED nonClient

restart_never(m, override) == FALSE

\* ensure_started: the child has exited, or an override names another
\* command than the running one.
restart_needed(m, override) ==
    \/ cproc[m.child] = "exited"
    \/ override # NoCmd /\ m.current_cmd # override

\* ensure_started up to stop_child / start_server.
ensure_check(tw) ==
    /\ op.pc = "ensure"
    /\ IF lsm.child # NoProc /\ tw = "error"
       THEN op' = OpDone("err")
       ELSE IF lsm.child # NoProc /\ ~restart_needed(lsm, op.override)
       THEN op' = [op EXCEPT !.pc = "send"]
       ELSE IF lsm.child # NoProc
       THEN op' = [op EXCEPT !.pc = "stop", !.cont = "start"]
       ELSE op' = [op EXCEPT !.pc = "start"]
    /\ UNCHANGED <<lsm, cproc, wire, failed, nOps, nReads>>
    /\ UNCHANGED nonClient

\* The tail of stop_child that only its successful paths reach.
StopResets(m) ==
    [m EXCEPT !.server_capabilities = FALSE, !.next_id = 1,
              !.read_mode = initial_read_mode(m.write_pref)]

\* Where the caller of stop_child goes with its result.
AfterStop(ok) ==
    IF op.cont = "start" /\ ok THEN [op EXCEPT !.pc = "start", !.cont = "none"]
    ELSE IF op.cont = "return" /\ ok THEN OpDone("ok")
    ELSE OpDone("err")

\* stop_child up to its read: the shutdown request is written.
stop_begin ==
    /\ op.pc = "stop"
    /\ IF lsm.child # NoProc /\ lsm.streams
       THEN /\ wire' = Written("request", "shutdown", lsm.next_id)
            /\ lsm' = [lsm EXCEPT !.next_id = @ + 1]
            /\ op' = [op EXCEPT !.pc = "stop_read"]
       ELSE IF lsm.child # NoProc
       THEN /\ lsm' = [lsm EXCEPT !.streams = FALSE]
            /\ op' = [op EXCEPT !.pc = "stop_wait"]
            /\ UNCHANGED wire
       ELSE /\ lsm' = StopResets([lsm EXCEPT !.streams = FALSE])
            /\ op' = AfterStop(TRUE)
            /\ UNCHANGED wire
    /\ UNCHANGED <<cproc, failed, nOps, nReads>>
    /\ UNCHANGED nonClient

\* stop_child: one read_message whose result is dropped, the exit
\* notification, and the streams are dropped.
stop_read(line, res) ==
    /\ op.pc = "stop_read"
    /\ Readable(res)
    /\ nReads' = IF res = "msg" THEN nReads + 1 ELSE nReads
    /\ LET m == [lsm EXCEPT !.read_mode = read_message_mode(lsm, line, res)]
       IN /\ wire' = IF CanWrite
                     THEN Append(wire, [proc |-> m.child, kind |-> "notification",
                                        method |-> "exit", id |-> 0,
                                        framing |-> current_write_mode(m)])
                     ELSE wire
          /\ lsm' = [m EXCEPT !.streams = FALSE]
    /\ op' = [op EXCEPT !.pc = "stop_wait"]
    /\ UNCHANGED <<cproc, failed, nOps>>
    /\ UNCHANGED nonClient

\* stop_child: the child is taken, polled, killed if it is still there.
stop_wait(w) ==
    /\ op.pc = "stop_wait"
    /\ w = "kill error" => ServerAlive(lsm.child)
    /\ IF w = "stopped"
       THEN /\ cproc' = [cproc EXCEPT ![lsm.child] = "exited"]
            /\ lsm' = StopResets([lsm EXCEPT !.child = NoProc])
            /\ op' = AfterStop(TRUE)
       ELSE /\ lsm' = [lsm EXCEPT !.child = NoProc]
            /\ op' = AfterStop(FALSE)
            /\ UNCHANGED cproc
    /\ UNCHANGED <<wire, failed, nOps, nReads>>
    /\ UNCHANGED nonClient

FreshServers == {q \in ClientProcs : cproc[q] = "none"}

CommandFor(override) ==
    IF override # NoCmd THEN override
    ELSE IF lsm.current_cmd # NoCmd THEN lsm.current_cmd
    ELSE DefaultCmd

\* start_server up to the first read: spawn, reset, initialize.
start_server(sp, pref) ==
    /\ op.pc = "start"
    /\ IF sp = "no spawn"
       THEN /\ op' = OpDone("err")
            /\ UNCHANGED <<lsm, cproc, wire>>
       ELSE /\ FreshServers # {}
            /\ LET q == CHOOSE x \in FreshServers : \A y \in FreshServers : x <= y
                   m == [lsm EXCEPT !.child = q, !.streams = TRUE,
                                    !.server_capabilities = FALSE,
                                    !.next_id = 2, !.write_pref = pref,
                                    !.read_mode = initial_read_mode(pref)]
               IN /\ cproc' = [cproc EXCEPT ![q] = "running"]
                  /\ lsm' = m
                  /\ wire' = <<[proc |-> q, kind |-> "request",
                             method |-> "initialize", id |-> 1,
                             framing |-> current_write_mode(m)]>>
                  /\ op' = [op EXCEPT !.pc = "hs_read", !.id = 1,
                                      !.cmd = CommandFor(op.override)]
    /\ UNCHANGED <<failed, nOps, nReads>>
    /\ UNCHANGED nonClient

\* The reply handle_server_request / send_jsonrpc_error writes.
Answered(m, msg) ==
    IF m.streams /\ ServerAlive(m.child)
    THEN Append(wire, [proc |-> m.child, kind |-> "response", method |-> "",
                       id |-> msg.id, framing |-> current_write_mode(m)])
    ELSE wire

\* One turn of the handshake loop of start_server.
hs_read(line, res, msg) ==
    /\ op.pc = "hs_read"
    /\ Readable(res)
    /\ nReads' = IF res = "msg" THEN nReads + 1 ELSE nReads
    /\ LET out == ReadOutcome(line, res)
           m == [lsm EXCEPT !.read_mode = read_message_mode(lsm, line, res)]
           how == Classify(msg, op.id)
       IN IF out # "msg"
          THEN /\ lsm' = m
               /\ op' = [op EXCEPT !.pc = "stop", !.cont = "fail"]
               /\ UNCHANGED wire
          ELSE IF how = "reply"
          THEN /\ wire' = IF CanWrite
                          THEN Append(wire, [proc |-> m.child,
                                   kind |-> "notification",
                                   method |-> "initialized", id |-> 0,
                                   framing |-> current_write_mode(m)])
                          ELSE wire
               /\ IF CanWrite
                  THEN /\ lsm' = [m EXCEPT
                            !.server_capabilities =
                                (~msg.hasMethod /\ msg.body = "result"),
                            !.current_cmd = op.cmd]
                       /\ op' = [op EXCEPT !.pc = "send", !.id = 0]
                  ELSE /\ lsm' = [m EXCEPT
                            !.server_capabilities =
                                (~msg.hasMethod /\ msg.body = "result")]
                       /\ op' = [op EXCEPT !.pc = "stop", !.cont = "fail"]
          ELSE IF how = "server_request"
          THEN /\ wire' = Answered(m, msg)
               /\ lsm' = m
               /\ UNCHANGED op
          ELSE /\ lsm' = m
               /\ UNCHANGED <<wire, op>>
    /\ UNCHANGED <<cproc, failed, nOps>>
    /\ UNCHANGED nonClient

\* request: alloc_id and the write; notify: the write.
send ==
    /\ op.pc = "send"
    /\ IF op.kind = "request"
       THEN /\ lsm' = [lsm EXCEPT !.next_id = @ + 1]
            /\ wire' = Written("request", "tool", lsm.next_id)
            /\ op' = IF CanWrite
                     THEN [op EXCEPT !.pc = "await", !.id = lsm.next_id]
                     ELSE OpDone("err")
       ELSE /\ wire' = Written("notification", "tool", 0)
            /\ op' = IF CanWrite THEN OpDone("ok") ELSE OpDone("err")
            /\ UNCHANGED lsm
    /\ failed' = IF CanWrite THEN failed ELSE failed \cup {lsm.child}
    /\ UNCHANGED <<cproc, nOps, nReads>>
    /\ UNCHANGED nonClient

\* One turn of the read loop of request.
await_read(line, res, msg) ==
    /\ op.pc = "await"
    /\ Readable(res)
    /\ nReads' = IF res = "msg" THEN nReads + 1 ELSE nReads
    /\ LET out == ReadOutcome(line, res)
           m == [lsm EXCEPT !.read_mode = read_message_mode(lsm, line, res)]
           how == Classify(msg, op.id)
       IN /\ lsm' = m
          /\ IF out # "msg"
             THEN /\ op' = OpDone("err")
                  /\ failed' = failed \cup {lsm.child}
                  /\ UNCHANGED wire
             ELSE /\ UNCHANGED failed
                  /\ IF how = "reply"
                     THEN /\ op' = OpDone(IF msg.body = "result" THEN "ok" ELSE "err")
                          /\ UNCHANGED wire
                     ELSE IF how = "server_request"
                     THEN /\ wire' = Answered(m, msg)
                          /\ UNCHANGED op
                     ELSE UNCHANGED <<wire, op>>
    /\ UNCHANGED <<cproc, nOps>>
    /\ UNCHANGED nonClient

\* The helper exits on its own.
ServerExit(q) ==
    /\ cproc[q] = "running"
    /\ cproc' = [cproc EXCEPT ![q] = "exited"]
    /\ UNCHANGED <<lsm, wire, op, failed, nOps, nReads>>
    /\ UNCHANGED nonClient

\* The helper the manager holds stays alive and stops talking.
ServerHang(q) ==
    /\ q = lsm.child
    /\ cproc[q] = "running"
    /\ cproc' = [cproc EXCEPT ![q] = "hung"]
    /\ UNCHANGED <<lsm, wire, op, failed, nOps, nReads>>
    /\ UNCHANGED nonClient

ReadInputs == {<<line, res>> : line \in LinesFor(lsm.read_mode), res \in ReadResults}

NextClient ==
    \/ \E kind \in OpKinds, override \in Overrides : client_call(kind, override)
    \/ \E tw \in {"ok", "error"} : ensure_check(tw)
    \/ stop_begin
    \/ \E inp \in ReadInputs : stop_read(inp[1], inp[2])
    \/ \E w \in {"stopped", "try_wait error", "kill error"} : stop_wait(w)
    \/ \E sp \in {"ok", "no spawn"}, pref \in FramingPreferences :
          start_server(sp, pref)
    \/ \E inp \in ReadInputs : \E msg \in Messages(op.id) :
          hs_read(inp[1], inp[2], msg)
    \/ send
    \/ \E inp \in ReadInputs : \E msg \in Messages(op.id) :
          await_read(inp[1], inp[2], msg)
    \/ \E q \in ClientProcs : ServerExit(q)
    \/ \E q \in ClientProcs : ServerHang(q)

(***************************************************************************)
(* Part IV - Manager::initialize (orchestrator/src/codex.rs)               *)
(***************************************************************************)
MaxInitReads == 3

InitIds == {1, 2}

\* The JsonRpcMessage variants the agent can send during the handshake.
InitPackets(id) ==
    {[kind |-> k, id |-> i] : k \in {"Request", "Response", "Error"},
                              i \in {id} \cup ServerIds}
        \cup {[kind |-> "Notification", id |-> 0]}
        \cup {[kind |-> "transport error", id |-> 0], [kind |-> "closed", id |-> 0]}

AgentInit ==
    /\ initPc = "idle"
    /\ initId = 0
    /\ initReads = <<>>
    /\ initWrites = <<>>

\* initialize: next_id and the initialize request.
initialize_send(id, sent) ==
    /\ initPc = "idle"
    /\ initId' = id
    /\ IF sent
       THEN /\ initWrites' = Append(initWrites, "initialize")
            /\ initPc' = "reading"
       ELSE /\ initPc' = "err"
            /\ UNCHANGED initWrites
    /\ UNCHANGED initReads
    /\ UNCHANGED nonInit

\* The arms of the match in the handshake loop, in their order.
InitArm(pkt, id) ==
    IF pkt.kind = "closed" THEN "closed"
    ELSE IF pkt.kind = "Response" /\ pkt.id = id THEN "reply"
    ELSE IF pkt.kind = "Error" /\ pkt.id = id THEN "error"
    ELSE IF pkt.kind = "Notification" THEN "event"
    ELSE IF pkt.kind = "transport error" THEN "transport"
    ELSE "ignored"

\* One turn of the handshake loop; on the reply the initialized
\* notification is sent.
initialize_read(pkt, sent) ==
    /\ initPc = "reading"
    /\ Len(initReads) < MaxInitReads
    /\ LET arm == InitArm(pkt, initId)
       IN /\ initReads' = Append(initReads, [kind |-> pkt.kind, id |-> pkt.id,
                                             as |-> arm])
          /\ initPc' = IF arm = "reply" THEN (IF sent THEN "ok" ELSE "err")
                       ELSE IF arm \in {"closed", "error", "transport"} THEN "err"
                       ELSE "reading"
          /\ initWrites' = IF arm = "reply" /\ sent
                           THEN Append(initWrites, "notifications/initialized")
                           ELSE initWrites
    /\ UNCHANGED initId
    /\ UNCHANGED nonInit

NextInit ==
    \/ \E id \in InitIds, sent \in BOOLEAN : initialize_send(id, sent)
    \/ \E pkt \in InitPackets(initId), sent \in BOOLEAN : initialize_read(pkt, sent)

(***************************************************************************)
(* Part V - the tables of the LanguageServerPool (lsp/src/main.rs)         *)
(*                                                                         *)
(* The pool is built on first use from the environment; its methods are    *)
(* the actions.  URIs come in as the callers write them.                   *)
(***************************************************************************)
RawUris == {"/tmp/b.py", "file:///tmp/b.py", "/tmp/c.RS", "/tmp/notes"}
NoUri == ""

\* LanguageServerPool::normalize_uri: a file URL as it is, a path as the
\* file URL of the absolute path.
normalize_uri(uri) ==
    IF uri = "/tmp/b.py" THEN "file:///tmp/b.py"
    ELSE IF uri = "/tmp/c.RS" THEN "file:///tmp/c.RS"
    ELSE IF uri = "/tmp/notes" THEN "file:///tmp/notes"
    ELSE uri

DocKeys == {normalize_uri(u) : u \in RawUris}

NoExt == ""

\* LanguageServerPool::extension_from_uri: the extension in lower case.
extension_from_uri(key) ==
    IF key = "file:///tmp/b.py" THEN "py"
    ELSE IF key = "file:///tmp/c.RS" THEN "rs"
    ELSE NoExt

NoLang == ""
Languages == {NoLang, "Python", "cobol"}

\* str::to_ascii_lowercase on the language ids in use
to_ascii_lowercase(lang) == IF lang = "Python" THEN "python" ELSE lang

\* built_in_server_map, as far as the documents above need it.
BuiltInLang == [l \in {"python", "rust"} |-> IF l = "python" THEN "pylsp" ELSE "rust-analyzer"]
BuiltInExt == [e \in {"py", "rs"} |-> IF e = "py" THEN "pylsp" ELSE "rust-analyzer"]

\* What LSP_SERVER_MAP can put over the built-in entries.
LangOverrides == {<<>>, [l \in {"python"} |-> "jedi-ls"]}
ExtOverrides == {<<>>, [e \in {"py"} |-> "pyright"]}
DefaultCmds == {NoCmd, "default-ls"}

\* HashMap::insert of every entry of over into base
Overlay(base, over) ==
    [k \in DOMAIN base \cup DOMAIN over |->
        IF k \in DOMAIN over THEN over[k] ELSE base[k]]

NoPool == [built |-> FALSE]

NotDown == [out |-> "none"]

TablesInit ==
    /\ tbl = NoPool
    /\ resolved = [out |-> "none"]
    /\ down = NotDown

\* LanguageServerPool::new, run by the first with_language_pool.
pool_new(default, lang, ext) ==
    /\ ~tbl.built
    /\ tbl' = [built |-> TRUE, default_cmd |-> default,
               managers |-> {}, doc_servers |-> <<>>,
               lang_map |-> Overlay(BuiltInLang, lang),
               ext_map |-> Overlay(BuiltInExt, ext),
               last_server |-> NoCmd]
    /\ UNCHANGED <<resolved, down>>
    /\ UNCHANGED nonTables

NoServer == "No language server registered for this request"

resolve_ext_first(pool, explicit, uri, language) ==
    IF explicit # NoCmd THEN explicit
    ELSE IF uri # NoUri /\ normalize_uri(uri) \in DOMAIN pool.doc_servers
    THEN pool.doc_servers[normalize_uri(uri)]
    ELSE IF uri # NoUri /\ extension_from_uri(normalize_uri(uri)) \in DOMAIN pool.ext_map
    THEN pool.ext_map[extension_from_uri(normalize_uri(uri))]
    ELSE IF language # NoLang /\ to_ascii_lowercase(language) \in DOMAIN pool.lang_map
    THEN pool.lang_map[to_ascii_lowercase(language)]
    ELSE IF pool.default_cmd # NoCmd THEN pool.default_cmd
    ELSE NoServer

\* LanguageServerPool::resolve_command with its three arguments.
resolve_command_in(pool, explicit, uri, language) ==
    IF explicit # NoCmd THEN explicit
    ELSE IF uri # NoUri /\ normalize_uri(uri) \in DOMAIN pool.doc_servers
    THEN pool.doc_servers[normalize_uri(uri)]
    ELSE IF language # NoLang /\ to_ascii_lowercase(language) \in DOMAIN pool.lang_map
    THEN pool.lang_map[to_ascii_lowercase(language)]
    ELSE IF uri # NoUri /\ extension_from_uri(normalize_uri(uri)) \in DOMAIN pool.ext_map
    THEN pool.ext_map[extension_from_uri(normalize_uri(uri))]
    ELSE IF pool.default_cmd # NoCmd THEN pool.default_cmd
    ELSE NoServer

\* A call of resolve_command.
pool_resolve(explicit, uri, language) ==
    /\ tbl.built /\ down = NotDown
    /\ resolved' = [out |-> resolve_command_in(tbl, explicit, uri, language),
                    explicit |-> explicit, uri |-> uri, language |-> language]
    /\ UNCHANGED <<tbl, down>>
    /\ UNCHANGED nonTables

\* LanguageServerPool::with_manager: the manager of cmd is created if the
\* map has none.
pool_with_manager(cmd) ==
    /\ tbl.built /\ down = NotDown
    /\ tbl' = [tbl EXCEPT !.managers = @ \cup {cmd}, !.last_server = cmd]
    /\ UNCHANGED <<resolved, down>>
    /\ UNCHANGED nonTables

\* HashMap::insert on doc_servers
insert_document(docs, key, cmd) == MapPut(docs, key, cmd)

\* LanguageServerPool::associate_document
pool_associate(uri, cmd) ==
    /\ tbl.built /\ down = NotDown
    /\ tbl' = [tbl EXCEPT
                  !.doc_servers = insert_document(@, normalize_uri(uri), cmd),
                  !.last_server = cmd]
    /\ UNCHANGED <<resolved, down>>
    /\ UNCHANGED nonTables

\* The commands of the documents that remain.
DocValues(docs) == {docs[k] : k \in DOMAIN docs}

remove_same_command(docs, key) ==
    IF key \in DOMAIN docs
    THEN [k \in {x \in DOMAIN docs : docs[x] # docs[key]} |-> docs[k]]
    ELSE docs

\* HashMap::remove on doc_servers
remove_document(docs, key) == MapDel(docs, key)

\* LanguageServerPool::release_document; last is what values().next()
\* yields, in hash order.
pool_release(uri, last) ==
    /\ tbl.built /\ down = NotDown
    /\ LET key == normalize_uri(uri)
           docs == remove_document(tbl.doc_servers, key)
       IN IF key \in DOMAIN tbl.doc_servers
          THEN /\ IF tbl.doc_servers[key] \in DocValues(docs)
                  THEN last = tbl.doc_servers[key]
                  ELSE IF docs = <<>> THEN last = NoCmd
                  ELSE last \in DocValues(docs)
               /\ tbl' = [tbl EXCEPT !.doc_servers = docs, !.last_server = last]
          ELSE /\ last = NoCmd
               /\ UNCHANGED tbl
    /\ UNCHANGED <<resolved, down>>
    /\ UNCHANGED nonTables

\* how LanguageServerManager::shutdown ends for one manager
ShutdownOutcomes == {"Ok", "Err"}

\* LanguageServerPool::shutdown_all: the managers are visited in hash
\* order; failing is the first whose shutdown returns Err (NoCmd if none
\* does) and before are those visited ahead of it.
shutdown_all(pool, failing, before) ==
    IF failing = NoCmd
    THEN [pool |-> [pool EXCEPT !.managers = {}, !.doc_servers = <<>>,
                                !.last_server = NoCmd],
          called |-> pool.managers,
          out |-> "Ok"]
    ELSE [pool |-> pool,
          called |-> before \cup {failing},
          out |-> "Err"]

\* Drop for LanguageServerPool: shutdown_all, after which the pool is gone
pool_drop(failing, before) ==
    /\ tbl.built /\ down = NotDown
    /\ failing \in tbl.managers \cup {NoCmd}
    /\ before \subseteq tbl.managers \ {failing}
    /\ failing = NoCmd => before = tbl.managers
    /\ LET r == shutdown_all(tbl, failing, before) IN
        /\ tbl' = r.pool
        /\ down' = [out |-> r.out, found |-> tbl.managers, called |-> r.called]
    /\ UNCHANGED resolved
    /\ UNCHANGED nonTables

NextTables ==
    \/ \E default \in DefaultCmds, lang \in LangOverrides, ext \in ExtOverrides :
          pool_new(default, lang, ext)
    \/ \E explicit \in ExplicitCmds, uri \in RawUris \cup {NoUri},
          language \in Languages : pool_resolve(explicit, uri, language)
    \/ \E cmd \in Cmds : pool_with_manager(cmd)
    \/ \E uri \in RawUris, cmd \in Cmds : pool_associate(uri, cmd)
    \/ \E uri \in RawUris, last \in Cmds \cup {NoCmd} : pool_release(uri, last)
    \/ \E failing \in Cmds \cup {NoCmd}, before \in SUBSET Cmds :
          pool_drop(failing, before)

(***************************************************************************)
(* Part VI - the DapAdapterManager (dap/src/da.rs)                         *)
(***************************************************************************)
\* calls on the manager
MaxDapOps == 3
\* adapter processes the calls may spawn
MaxDapProcs == 2
DapProcs == 1..MaxDapProcs

\* DAP_ADAPTER_CMD and arguments.adapterCommand; NoCmd stands for None
AdapterCmds == {NoCmd, "debugpy", "lldb-dap"}
\* how Command::spawn ends
SpawnOutcomes == {"spawned", "spawn failed"}
\* what the adapter does with the initialize request: answers it, closes
\* its output, or sends a body that is no JSON
HandshakeOutcomes == {"response", "EOF", "garbage"}
\* what the adapter does with a request: answers with success, answers
\* with success = false, or exits
Replies == {"success", "failure", "EOF"}

NoAdapter == [cmd |-> NoCmd, state |-> "none"]
NoResult == [op |-> "none", out |-> "none", override |-> NoCmd]

\* DapAdapterManager before new()
DapInit ==
    /\ dap = [made |-> FALSE]
    /\ dproc = [p \in DapProcs |-> NoAdapter]
    /\ dres = NoResult
    /\ nDap = 0

\* DapAdapterManager::new
dap_new(env) ==
    /\ ~dap.made
    /\ dap' = [made |-> TRUE, cmd |-> env, child |-> NoProc, next_seq |-> 1,
               capabilities |-> FALSE]
    /\ UNCHANGED <<dproc, dres, nDap>>
    /\ UNCHANGED nonDap

FreshAdapters == {p \in DapProcs : dproc[p].state = "none"}

\* ensure_started: if self.child.is_some() { return Ok(()) }
child_is_some(d, procs, override_cmd) == d.child # NoProc

\* DapAdapterManager::ensure_started: the manager and the processes after it, and its result
dap_ensure_started(override_cmd, p, spawn, hs) ==
    LET cmd == IF override_cmd # NoCmd THEN override_cmd ELSE dap.cmd IN
    IF child_is_some(dap, dproc, override_cmd)
    THEN [d |-> dap, procs |-> dproc, out |-> "Ok"]
    ELSE IF cmd = NoCmd
    THEN [d |-> dap, procs |-> dproc, out |-> "not configured"]
    ELSE IF spawn = "spawn failed"
    THEN [d |-> dap, procs |-> dproc, out |-> "spawn failed"]
    ELSE LET started == [dap EXCEPT !.child = p,
                                     !.next_seq = dap.next_seq + 1]
         IN  CASE hs = "response" ->
                    [d |-> [started EXCEPT !.capabilities = TRUE],
                     procs |-> [dproc EXCEPT ![p] =
                                   [cmd |-> cmd, state |-> "running"]],
                     out |-> "Ok"]
               [] hs = "EOF" ->
                    [d |-> started,
                     procs |-> [dproc EXCEPT ![p] =
                                   [cmd |-> cmd, state |-> "exited"]],
                     out |-> "EOF"]
               [] OTHER ->
                    [d |-> started,
                     procs |-> [dproc EXCEPT ![p] =
                                   [cmd |-> cmd, state |-> "running"]],
                     out |-> "parse"]

\* DapAdapterManager::request
dap_request(override_cmd, p, spawn, hs, reply) ==
    /\ dap.made /\ nDap < MaxDapOps
    /\ child_is_some(dap, dproc, override_cmd) \/ p \in FreshAdapters
    /\ LET es == dap_ensure_started(override_cmd, p, spawn, hs) IN
       IF es.out # "Ok"
       THEN /\ dap' = es.d
            /\ dproc' = es.procs
            /\ dres' = [op |-> "request", out |-> es.out,
                        override |-> override_cmd]
       ELSE LET q == es.d.child
                alive == es.procs[q].state = "running"
                answer == IF alive THEN reply ELSE "EOF"
            IN  /\ dap' = [es.d EXCEPT !.next_seq = es.d.next_seq + 1]
                /\ dproc' = IF answer = "EOF"
                            THEN [es.procs EXCEPT ![q].state = "exited"]
                            ELSE es.procs
                /\ dres' = [op |-> "request",
                            out |-> CASE answer = "success" -> "Ok"
                                      [] answer = "failure" -> "dap error"
                                      [] OTHER -> "EOF",
                            override |-> override_cmd]
    /\ nDap' = nDap + 1
    /\ UNCHANGED nonDap

\* DapAdapterManager::capabilities
dap_capabilities(override_cmd, p, spawn, hs) ==
    /\ dap.made /\ nDap < MaxDapOps
    /\ child_is_some(dap, dproc, override_cmd) \/ p \in FreshAdapters
    /\ LET es == dap_ensure_started(override_cmd, p, spawn, hs) IN
        /\ dap' = es.d
        /\ dproc' = es.procs
        /\ dres' = [op |-> "capabilities",
                    out |-> IF es.out = "not configured" THEN "Ok" ELSE es.out,
                    override |-> override_cmd]
    /\ nDap' = nDap + 1
    /\ UNCHANGED nonDap

\* the adapter process ends on its own
AdapterExit(p) ==
    /\ dproc[p].state = "running"
    /\ dproc' = [dproc EXCEPT ![p].state = "exited"]
    /\ UNCHANGED <<dap, dres, nDap>>
    /\ UNCHANGED nonDap

NextDap ==
    \/ \E env \in AdapterCmds : dap_new(env)
    \/ \E override_cmd \in AdapterCmds, p \in DapProcs,
          spawn \in SpawnOutcomes, hs \in HandshakeOutcomes,
          reply \in Replies :
            dap_request(override_cmd, p, spawn, hs, reply)
    \/ \E override_cmd \in AdapterCmds, p \in DapProcs,
          spawn \in SpawnOutcomes, hs \in HandshakeOutcomes :
            dap_capabilities(override_cmd, p, spawn, hs)
    \/ \E p \in DapProcs : AdapterExit(p)

(***************************************************************************)
(* Part VII - the OrchestratorServer (orchestrator/src/main.rs)            *)
(***************************************************************************)
\* forwarded tool calls
MaxForwards == 2
\* children that spawn_agent may create
MaxSrvProcs == 1
\* lines the agents write
MaxLines == 2
Forwards == 1..MaxForwards
SrvProcs == 1..MaxSrvProcs

\* what an agent writes on a line: its response to the oldest request it
\* has not answered, a notification, or something serde_json rejects
Lines == {"response", "notification", "garbage"}
\* a line is the pair of its kind and, for a response, the forwarded call
\* whose request it answers
NoLine == <<"none", 0>>
InternalErrors == {"failed to write to agent", "agent response timeout",
                   "agent channel closed", "invalid agent response"}

NoChild == [state |-> "none", pipe |-> <<>>, chan |-> <<>>,
            reader |-> "none", rx_lock |-> 0, stdin |-> <<>>]
NoForward == [pc |-> "idle", proc |-> NoProc, result |-> "none",
              line |-> NoLine]
NoKill == [agent |-> "", out |-> "none"]

\* OrchestratorServer::new
ServerInit ==
    /\ sagents = <<>>
    /\ sproc = [p \in SrvProcs |-> NoChild]
    /\ fwd = [f \in Forwards |-> NoForward]
    /\ kres = NoKill
    /\ nLines = 0

\* handle_spawn_agent: the child, its reader thread and its channel; the
\* record replaces one of the same id, whose child is not stopped.
handle_spawn_agent(id, p) ==
    /\ sproc[p].state = "none"
    /\ \A q \in SrvProcs : q < p => sproc[q].state # "none"
    /\ sproc' = [sproc EXCEPT ![p] = [NoChild EXCEPT !.state = "running",
                                                      !.reader = "running"]]
    /\ sagents' = MapPut(sagents, id, p)
    /\ UNCHANGED <<fwd, kres, nLines>>
    /\ UNCHANGED nonServer

kill_nothing(procs, p) == procs

\* agent.child.kill(); agent.child.wait()
kill_child(procs, p) == [procs EXCEPT ![p].state = "killed"]

\* handle_kill_agent
handle_kill_agent(id) ==
    /\ IF id \in DOMAIN sagents
       THEN /\ sagents' = MapDel(sagents, id)
            /\ sproc' = kill_child(sproc, sagents[id])
            /\ kres' = [agent |-> id, out |-> "ok"]
       ELSE /\ kres' = [agent |-> id, out |-> "agent not found"]
            /\ UNCHANGED <<sagents, sproc>>
    /\ UNCHANGED <<fwd, nLines>>
    /\ UNCHANGED nonServer

\* handle_forwarded_tool up to the release of the state lock: the agent
\* is looked up and the request line is written to it.
forward_write(f, id) ==
    /\ fwd[f].pc = "idle"
    /\ fwd' = [fwd EXCEPT ![f] =
                  IF id \notin DOMAIN sagents
                  THEN [pc |-> "done", proc |-> NoProc,
                        result |-> "agent not found", line |-> NoLine]
                  ELSE IF sproc[sagents[id]].state # "running"
                  THEN [pc |-> "done", proc |-> sagents[id],
                        result |-> "failed to write to agent",
                        line |-> NoLine]
                  ELSE [pc |-> "lock", proc |-> sagents[id],
                        result |-> "none", line |-> NoLine]]
    /\ sproc' = IF id \in DOMAIN sagents /\ sproc[sagents[id]].state = "running"
                THEN [sproc EXCEPT ![sagents[id]].stdin = Append(@, f)]
                ELSE sproc
    /\ UNCHANGED <<sagents, kres, nLines>>
    /\ UNCHANGED nonServer

\* handle_forwarded_tool: rx.lock()
forward_lock(f) ==
    /\ fwd[f].pc = "lock"
    /\ sproc[fwd[f].proc].rx_lock = 0
    /\ sproc' = [sproc EXCEPT ![fwd[f].proc].rx_lock = f]
    /\ fwd' = [fwd EXCEPT ![f].pc = "recv"]
    /\ UNCHANGED <<sagents, kres, nLines>>
    /\ UNCHANGED nonServer

\* serde_json::from_str of the line received
parse_response(line) ==
    IF line[1] # "garbage" THEN "agentResponse" ELSE "invalid agent response"

\* handle_forwarded_tool: recv_timeout(60 s) and what follows it. A line
\* in the channel is taken; an empty channel whose sender is gone gives
\* Disconnected; an empty channel may also let the 60 s pass.
forward_recv(f, timeout) ==
    /\ fwd[f].pc = "recv"
    /\ LET p == fwd[f].proc
           c == sproc[p].chan
       IN  /\ IF c # <<>>
              THEN /\ ~timeout
                   /\ fwd' = [fwd EXCEPT ![f].pc = "done",
                                         ![f].result = parse_response(Head(c)),
                                         ![f].line = Head(c)]
                   /\ sproc' = [sproc EXCEPT ![p].chan = Tail(c),
                                             ![p].rx_lock = 0]
              ELSE /\ timeout \/ sproc[p].reader = "ended"
                   /\ fwd' = [fwd EXCEPT ![f].pc = "done",
                                 ![f].result =
                                    IF timeout THEN "agent response timeout"
                                    ELSE "agent channel closed"]
                   /\ sproc' = [sproc EXCEPT ![p].rx_lock = 0]
    /\ UNCHANGED <<sagents, kres, nLines>>
    /\ UNCHANGED nonServer

\* the reader thread of a child: a line of the pipe goes to the channel;
\* at end of file the thread ends and drops the sender.
reader_thread(p) ==
    /\ sproc[p].reader = "running"
    /\ IF sproc[p].pipe # <<>>
       THEN sproc' = [sproc EXCEPT ![p].chan = Append(@, Head(sproc[p].pipe)),
                                   ![p].pipe = Tail(@)]
       ELSE /\ sproc[p].state \in {"killed", "exited"}
            /\ sproc' = [sproc EXCEPT ![p].reader = "ended"]
    /\ UNCHANGED <<sagents, fwd, kres, nLines>>
    /\ UNCHANGED nonServer

\* a running agent writes a line to its stdout; a response answers the
\* oldest request in its stdin
AgentWrite(p, line) ==
    /\ sproc[p].state = "running"
    /\ nLines < MaxLines
    /\ line = "response" => sproc[p].stdin # <<>>
    /\ sproc' = IF line = "response"
                THEN [sproc EXCEPT ![p].pipe = Append(@, <<line, Head(sproc[p].stdin)>>),
                                   ![p].stdin = Tail(@)]
                ELSE [sproc EXCEPT ![p].pipe = Append(@, <<line, 0>>)]
    /\ nLines' = nLines + 1
    /\ UNCHANGED <<sagents, fwd, kres>>
    /\ UNCHANGED nonServer

\* a running agent ends on its own
AgentQuit(p) ==
    /\ sproc[p].state = "running"
    /\ sproc' = [sproc EXCEPT ![p].state = "exited"]
    /\ UNCHANGED <<sagents, fwd, kres, nLines>>
    /\ UNCHANGED nonServer

ForwardStep(f) == forward_lock(f) \/ \E timeout \in BOOLEAN : forward_recv(f, timeout)

NextServer ==
    \/ \E id \in AgentIds, p \in SrvProcs : handle_spawn_agent(id, p)
    \/ \E id \in AgentIds : handle_kill_agent(id)
    \/ \E f \in Forwards, id \in AgentIds : forward_write(f, id)
    \/ \E f \in Forwards : forward_lock(f)
    \/ \E f \in Forwards, timeout \in BOOLEAN : forward_recv(f, timeout)
    \/ \E p \in SrvProcs : reader_thread(p)
    \/ \E p \in SrvProcs, line \in Lines : AgentWrite(p, line)
    \/ \E p \in SrvProcs : AgentQuit(p)

(***************************************************************************)
(* Part VIII - the remembered conversation id (orchestrator/src/codex.rs)  *)
(***************************************************************************)
\* conversation calls
MaxConvCalls == 2
ConvCalls == 1..MaxConvCalls
\* agents registered with the Manager
ConvAgents == {"agent-1", "agent-2"}

\* no conversation id: the key is absent, or its value is no string
NoCid == "none"
\* a JSON object as far as its two conversation id keys go
Keys(camel, snake) == [conversationId |-> camel, conversation_id |-> snake]
\* payloads of callers
Payloads == {Keys(NoCid, NoCid), Keys("c-user", NoCid), Keys(NoCid, "c-user")}
\* results of successful replies
ReplyValues == {Keys("c2", "c9"), Keys(NoCid, "c9"), Keys(NoCid, NoCid)}
NoReply == [ok |-> FALSE, value |-> Keys(NoCid, NoCid)]
AgentReplies == {NoReply} \cup {[ok |-> TRUE, value |-> v] : v \in ReplyValues}

StoringKinds == {"newConversation", "resumeConversation"}
InjectingKinds == {"sendUserMessage", "sendUserTurn", "interruptConversation"}
ConvKinds == StoringKinds \cup InjectingKinds

IdleConv == [pc |-> "idle", kind |-> "none", agent |-> "none",
             payload |-> Keys(NoCid, NoCid), sent |-> Keys(NoCid, NoCid),
             reply |-> NoReply]

\* Agent records as spawn_agent builds them
ConvInit ==
    /\ last_conversation_id = [a \in ConvAgents |-> NoCid]
    /\ conv = [k \in ConvCalls |-> IdleConv]
    /\ lastReply = [a \in ConvAgents |-> NoCid]

\* new_conversation, resume_conversation: conversationId, or else
\* conversation_id, of the result
conversation_id_of(value) ==
    IF value.conversationId # NoCid THEN value.conversationId
    ELSE value.conversation_id

inject_always(obj, remembered) ==
    IF remembered # NoCid
    THEN [obj EXCEPT !.conversationId = remembered]
    ELSE obj

\* prepare_message_params and interrupt: the remembered id is inserted
\* when the payload has neither key
prepare_message_params(obj, remembered) ==
    IF obj.conversationId # NoCid \/ obj.conversation_id # NoCid THEN obj
    ELSE IF remembered # NoCid
    THEN [obj EXCEPT !.conversationId = remembered]
    ELSE obj

\* a conversation call up to the request it sends through rpc_call; the
\* payload of a new or resume call goes out as it is
conv_send(k, kind, a, payload) ==
    /\ conv[k].pc = "idle"
    /\ kind \in StoringKinds => payload = Keys(NoCid, NoCid)
    /\ \A b \in ConvCalls : b < k => conv[b].pc # "idle"
    /\ conv' = [conv EXCEPT ![k] =
                   [pc |-> "waiting", kind |-> kind, agent |-> a,
                    payload |-> payload,
                    sent |-> IF kind \in InjectingKinds
                             THEN prepare_message_params(
                                      payload, last_conversation_id[a])
                             ELSE payload,
                    reply |-> NoReply]]
    /\ UNCHANGED <<last_conversation_id, lastReply>>
    /\ UNCHANGED nonConv

\* the read loop of the agent reads the reply of call k and hands it to
\* the waiting rpc_call; the result of a message, turn or interrupt call
\* is only passed on
conv_reply(k, r) ==
    /\ conv[k].pc = "waiting"
    /\ conv[k].kind \in InjectingKinds => r.value = Keys(NoCid, NoCid)
    /\ conv' = [conv EXCEPT ![k].pc = "replied", ![k].reply = r]
    /\ lastReply' =
          IF /\ conv[k].kind \in StoringKinds
             /\ r.ok
             /\ conversation_id_of(r.value) # NoCid
          THEN [lastReply EXCEPT ![conv[k].agent] = conversation_id_of(r.value)]
          ELSE lastReply
    /\ UNCHANGED last_conversation_id
    /\ UNCHANGED nonConv

\* the call resumes after rpc_call: a failed call returns at once, a
\* successful new/resume stores the id it finds
conv_return(k) ==
    /\ conv[k].pc = "replied"
    /\ conv' = [conv EXCEPT ![k].pc = "done", ![k].reply = NoReply]
    /\ last_conversation_id' =
          IF /\ conv[k].kind \in StoringKinds
             /\ conv[k].reply.ok
             /\ conversation_id_of(conv[k].reply.value) # NoCid
          THEN [last_conversation_id EXCEPT ![conv[k].agent] =
                    conversation_id_of(conv[k].reply.value)]
          ELSE last_conversation_id
    /\ UNCHANGED lastReply
    /\ UNCHANGED nonConv

NextConv ==
    \/ \E k \in ConvCalls, kind \in ConvKinds, a \in ConvAgents,
          payload \in Payloads : conv_send(k, kind, a, payload)
    \/ \E k \in ConvCalls, r \in AgentReplies : conv_reply(k, r)
    \/ \E k \in ConvCalls : conv_return(k)

(***************************************************************************)
(* Part IX - LanguageServerManager::handle_server_request (lsp/src/ls.rs)  *)
(***************************************************************************)
\* items of a workspace/configuration request
MaxItems == 3
\* ids a server puts on its requests: numbers and strings
ServerRequestIds == {1, 2, 77}

NullResultMethods ==
    {"client/registerCapability", "client/unregisterCapability",
     "window/workDoneProgress/create", "workspace/workDoneProgress/create",
     "workspace/workspaceFolders", "window/showMessageRequest",
     "workspace/codeLens/refresh", "workspace/semanticTokens/refresh",
     "workspace/inlineValue/refresh", "workspace/inlayHint/refresh",
     "workspace/diagnostic/refresh"}
ServerMethods ==
    NullResultMethods
        \cup {"workspace/configuration", "workspace/applyEdit",
              "window/showDocument", "workspace/foldingRange/refresh"}

Null == "null"
MethodNotFound == 0 - 32601

\* send_jsonrpc_response
send_jsonrpc_response(id, result) ==
    <<[id |-> id, kind |-> "result", result |-> result, code |-> 0]>>

\* send_jsonrpc_error
send_jsonrpc_error(id, code) ==
    <<[id |-> id, kind |-> "error", result |-> Null, code |-> code]>>

\* a handler that acknowledges every method it does not know
answer_unknown_with_null(id, method, count) ==
    CASE method = "workspace/configuration" ->
            send_jsonrpc_response(id, [i \in 1..count |-> Null])
      [] method = "workspace/applyEdit" ->
            send_jsonrpc_response(id,
                [applied |-> FALSE,
                 failureReason |-> "codex-lsp bridge cannot apply workspace edits"])
      [] OTHER -> send_jsonrpc_response(id, Null)

\* handle_server_request, as the frames it writes; count is the length of
\* params.items (0 when there is no such array)
handle_server_request_frames(id, method, count) ==
    CASE method = "workspace/configuration" ->
            send_jsonrpc_response(id, [i \in 1..count |-> Null])
      [] method \in NullResultMethods ->
            send_jsonrpc_response(id, Null)
      [] method = "workspace/applyEdit" ->
            send_jsonrpc_response(id,
                [applied |-> FALSE,
                 failureReason |-> "codex-lsp bridge cannot apply workspace edits"])
      [] OTHER -> send_jsonrpc_error(id, MethodNotFound)

RequestInit == answered = [method |-> "none"]

\* a read loop hands a server request to handle_server_request
server_request(id, method, count) ==
    /\ answered' = [method |-> method, id |-> id, count |-> count,
                    frames |-> handle_server_request_frames(id, method, count)]
    /\ UNCHANGED nonRequest

NextRequest ==
    \E id \in ServerRequestIds, method \in ServerMethods, count \in 0..MaxItems :
        server_request(id, method, count)

(***************************************************************************)
(* Part X - tool advertisement (lsp/src/mcp.rs, dap/src/main.rs)           *)
(***************************************************************************)
\* a capability value: the key is absent, false, true, an object, or an
\* object whose resolveProvider / prepareProvider member is true
CapValues == {"absent", "false", "true", "object", "object_flag"}
NoCaps == [none |-> TRUE]

\* the part of the LSP catalog of tools() that is modelled
LspCatalog ==
    {"lsp_call", "lsp_notify", "lsp_hover", "lsp_completion",
     "lsp_completion_item_resolve", "lsp_rename", "lsp_prepare_rename"}
LspCapabilityRecords ==
    [hoverProvider : CapValues, completionProvider : CapValues,
     renameProvider : CapValues]

lsp_capability_truthy(v) == v \in {"true", "object", "object_flag"}

\* the closure `has`
has(caps_obj, k) == lsp_capability_truthy(caps_obj[k])
\* caps_obj.get(k).is_some()
is_some(caps_obj, k) == caps_obj[k] # "absent"
\* the closures resolve_flag and rename_prepare
resolve_flag(caps_obj, k) == caps_obj[k] = "object_flag"

lsp_allowed(caps_obj) ==
    (IF has(caps_obj, "hoverProvider") THEN {"lsp_hover"} ELSE {})
    \cup (IF is_some(caps_obj, "completionProvider")
            THEN {"lsp_completion"}
                 \cup (IF resolve_flag(caps_obj, "completionProvider")
                         THEN {"lsp_completion_item_resolve"} ELSE {})
            ELSE {})
    \cup (IF has(caps_obj, "renameProvider")
            THEN {"lsp_rename"}
                 \cup (IF resolve_flag(caps_obj, "renameProvider")
                         THEN {"lsp_prepare_rename"} ELSE {})
            ELSE {})

\* lsp/src/mcp.rs filter_tools_by_capabilities
lsp_filter_tools_by_capabilities(all, caps) ==
    IF caps = NoCaps THEN all
    ELSE {t \in all : t = "lsp_call" \/ t \in lsp_allowed(caps)}

\* the DAP catalog of tools()
DapCatalog ==
    {"dap_initialize", "dap_call", "dap_launch", "dap_attach",
     "dap_set_breakpoints", "dap_configuration_done", "dap_continue",
     "dap_next", "dap_step_in", "dap_step_out", "dap_threads",
     "dap_stack_trace", "dap_scopes", "dap_variables", "dap_evaluate",
     "dap_disconnect"}
DapCapabilityRecords == [supportsConfigurationDoneRequest : CapValues]

dap_allowed(obj) ==
    (DapCatalog \ {"dap_configuration_done"})
    \cup (IF obj.supportsConfigurationDoneRequest = "true"
            THEN {"dap_configuration_done"} ELSE {})

\* dap/src/main.rs filter_tools_by_capabilities
dap_filter_tools_by_capabilities(all, caps) ==
    IF caps = NoCaps THEN all ELSE {t \in all : t \in dap_allowed(caps)}

AdvertInit == advertised = [bridge |-> "none"]

\* lsp/src/mcp.rs list_available_tools
list_available_tools(caps) ==
    /\ advertised' = [bridge |-> "lsp", caps |-> caps,
                      tools |-> lsp_filter_tools_by_capabilities(LspCatalog, caps)]
    /\ UNCHANGED nonAdvert

\* dap/src/main.rs list_tools_impl
list_tools_impl(caps) ==
    /\ advertised' = [bridge |-> "dap", caps |-> caps,
                      tools |-> dap_filter_tools_by_capabilities(DapCatalog, caps)]
    /\ UNCHANGED nonAdvert

NextAdvert ==
    \/ \E caps \in LspCapabilityRecords \cup {NoCaps} : list_available_tools(caps)
    \/ \E caps \in DapCapabilityRecords \cup {NoCaps} : list_tools_impl(caps)

(***************************************************************************)
(* Part XI - tools/call dispatch of the four bridges                       *)
(*   orchestrator/src/main.rs call_tool_sync, lsp/src/main.rs              *)
(*   handle_tools_call, dap/src/mcp.rs call_tool_impl, lsif/src/main.rs    *)
(*   call_tool_impl                                                        *)
(***************************************************************************)
Bridges == {"orchestrator", "lsp", "dap", "lsif"}
\* a tool of the catalog, a name with the prefix of the bridge that is not
\* in the catalog, and a name without the prefix
ToolNames == {"known", "prefixed_unknown", "does/not/exist"}
\* the arguments object: valid, lacking a required field, or holding a
\* value of the wrong type in it
ArgShapes == {"ok", "missing_field", "wrong_type"}
\* what the helper does with the request it is sent
HelperReplies == {"result", "error"}

INVALID_PARAMS == 0 - 32602
METHOD_NOT_FOUND == 0 - 32601
INTERNAL_ERROR == 0 - 32603
TOOL_FAILED == 0 - 32050
NoError == 0

\* a reply to tools/call: code 0 is a result; names_tool says whether the
\* error carries the tool name; downstream whether a helper was started or
\* written to
Reply(code, names_tool, downstream) ==
    [code |-> code, names_tool |-> names_tool, downstream |-> downstream]

\* lsp/src/main.rs unsupported_tool_error
unsupported_tool_error == Reply(METHOD_NOT_FOUND, TRUE, FALSE)

\* lsp/src/main.rs invalid_params_error
invalid_params_error == Reply(INVALID_PARAMS, FALSE, FALSE)

\* lsp/src/main.rs build_lsp_invocation for a positional tool
build_lsp_invocation(name, args) ==
    IF name # "known" THEN unsupported_tool_error
    ELSE IF args # "ok" THEN invalid_params_error
    ELSE Reply(NoError, FALSE, FALSE)

\* lsp/src/main.rs handle_tools_call for a tool other than lsp_call and
\* lsp_notify, on a document the pool has not opened
handle_tools_call(name, args, file, answer) ==
    IF name = "does/not/exist" THEN unsupported_tool_error
    ELSE IF build_lsp_invocation(name, args).code # NoError
         THEN build_lsp_invocation(name, args)
    ELSE IF build_did_open_params(file) # "ok"
         THEN Reply(TOOL_FAILED, TRUE, FALSE)
    ELSE IF answer = "error" THEN Reply(TOOL_FAILED, TRUE, TRUE)
    ELSE Reply(NoError, TRUE, TRUE)

\* dap/src/main.rs handle_structured_call
handle_structured_call(name, args, answer) ==
    IF name # "known" THEN Reply(INVALID_PARAMS, TRUE, FALSE)
    ELSE IF args # "ok" THEN Reply(INVALID_PARAMS, FALSE, FALSE)
    ELSE IF answer = "error" THEN Reply(INTERNAL_ERROR, FALSE, TRUE)
    ELSE Reply(NoError, TRUE, TRUE)

\* dap/src/mcp.rs call_tool_impl
dap_call_tool_impl(name, args, answer) ==
    IF name = "does/not/exist" THEN Reply(METHOD_NOT_FOUND, FALSE, FALSE)
    ELSE handle_structured_call(name, args, answer)

\* lsif/src/main.rs call_tool_impl; the index is in memory, there is no
\* helper
lsif_call_tool_impl(name, args, answer) ==
    IF name # "known" THEN Reply(INVALID_PARAMS, TRUE, FALSE)
    ELSE IF args # "ok" THEN Reply(INVALID_PARAMS, FALSE, FALSE)
    ELSE IF answer = "error" THEN Reply(INTERNAL_ERROR, FALSE, FALSE)
    ELSE Reply(NoError, FALSE, FALSE)

\* orchestrator/src/main.rs call_tool_sync; the known tool is a forwarded
\* one
call_tool_sync(name, args, answer) ==
    IF name # "known" THEN Reply(INVALID_PARAMS, TRUE, FALSE)
    ELSE IF args # "ok" THEN Reply(INVALID_PARAMS, FALSE, FALSE)
    ELSE IF answer = "error" THEN Reply(INTERNAL_ERROR, FALSE, TRUE)
    ELSE Reply(NoError, FALSE, TRUE)

CallInit == called = [bridge |-> "none"]

Called(bridge, name, args, file, answer, reply) ==
    [bridge |-> bridge, name |-> name, args |-> args, file |-> file,
     answer |-> answer, reply |-> reply]

\* a file that is there and small, for the bridges that read none
SmallFile == [on_disk |-> TRUE, len |-> MAX_INLINE_DOC_BYTES - 1]

lsp_tools_call(name, args, file, answer) ==
    /\ called' = Called("lsp", name, args, file, answer,
                        handle_tools_call(name, args, file, answer))
    /\ UNCHANGED nonCall

dap_tools_call(name, args, answer) ==
    /\ called' = Called("dap", name, args, SmallFile, answer,
                        dap_call_tool_impl(name, args, answer))
    /\ UNCHANGED nonCall

lsif_tools_call(name, args, answer) ==
    /\ called' = Called("lsif", name, args, SmallFile, answer,
                        lsif_call_tool_impl(name, args, answer))
    /\ UNCHANGED nonCall

orchestrator_tools_call(name, args, answer) ==
    /\ called' = Called("orchestrator", name, args, SmallFile, answer,
                        call_tool_sync(name, args, answer))
    /\ UNCHANGED nonCall

NextCall ==
    \E name \in ToolNames, args \in ArgShapes, answer \in HelperReplies :
        \/ \E file \in Files : lsp_tools_call(name, args, file, answer)
        \/ dap_tools_call(name, args, answer)
        \/ lsif_tools_call(name, args, answer)
        \/ orchestrator_tools_call(name, args, answer)

(***************************************************************************)
(* Part XII - LSIF position queries (lsif/src/lsif.rs)                     *)
(***************************************************************************)
MaxLine == 1
MaxCharacter == 1
\* range vertices of the loaded index
MaxRanges == 2
\* documents of the loaded index; the query names document 1
MaxDocs == 2
\* 2^32 = U32_HI * LINE_WEIGHT + U32_LO; a length is held as the pair
\* <<hi, lo>> standing for the i64 value hi * LINE_WEIGHT + lo, lo below
\* LINE_WEIGHT
LINE_WEIGHT == 1000000
U32_HI == 4294
U32_LO == 967296

Pos == [line : 0..MaxLine, character : 0..MaxCharacter]

pos_leq(a, b) ==
    a.line < b.line \/ (a.line = b.line /\ a.character <= b.character)
pos_lt(a, b) ==
    a.line < b.line \/ (a.line = b.line /\ a.character < b.character)
contains(span, p) == pos_leq(span.start, p) /\ pos_lt(p, span.end)

\* range vertices as an index holds them: a span that is not empty and the
\* document a contains edge gave it
Spans == {sp \in [start : Pos, end : Pos] : pos_lt(sp.start, sp.end)}
RangeVertices == [span : Spans, doc : 1..MaxDocs]
\* the ranges map in the order its iterator yields the entries
Indexes ==
    UNION {[1..n -> RangeVertices] : n \in 0..MaxRanges}
\* overflow checks of the build: on in a debug build, off in a release one
Builds == {"debug", "release"}

\* the u32 subtraction end.character - start.character overflows
underflows(span) == span.end.character < span.start.character

\* the length find_best_range computes: (end.line - start.line) as i64 *
\* 1_000_000 + (end.character - start.character) as i64, the u32
\* difference of the characters wrapping to 2^32 + d when d is negative
span_len(span) ==
    IF underflows(span)
    THEN <<(span.end.line - span.start.line) + U32_HI,
           U32_LO + (span.end.character - span.start.character)>>
    ELSE <<span.end.line - span.start.line,
           span.end.character - span.start.character>>

\* cur_len < prev_len
len_lt(a, b) == a[1] < b[1] \/ (a[1] = b[1] /\ a[2] < b[2])

NoBest == [rid |-> 0, panicked |-> FALSE]

\* the loop of find_best_range from entry i on; best.rid = 0 is None
RECURSIVE best_from(_, _, _, _, _, _)
best_from(ranges, did, pos, build, i, best) ==
    IF i > Len(ranges) \/ best.panicked THEN best
    ELSE IF ~(ranges[i].doc = did /\ contains(ranges[i].span, pos))
         THEN best_from(ranges, did, pos, build, i + 1, best)
    ELSE IF best.rid = 0
         THEN best_from(ranges, did, pos, build, i + 1,
                        [rid |-> i, panicked |-> FALSE])
    ELSE IF build = "debug"
            /\ (underflows(ranges[best.rid].span) \/ underflows(ranges[i].span))
         THEN [rid |-> 0, panicked |-> TRUE]
    ELSE IF len_lt(span_len(ranges[i].span), span_len(ranges[best.rid].span))
         THEN best_from(ranges, did, pos, build, i + 1,
                        [rid |-> i, panicked |-> FALSE])
    ELSE best_from(ranges, did, pos, build, i + 1, best)

find_best_range(ranges, did, pos, build) ==
    best_from(ranges, did, pos, build, 1, NoBest)

QueryInit == queried = [outcome |-> "none"]

\* query_definition / query_references on document 1: the range chosen, a
\* failure when there is none, or the panic of an overflow check
query_definition(ranges, pos, build) ==
    LET best == find_best_range(ranges, 1, pos, build) IN
    /\ queried' = [ranges |-> ranges, pos |-> pos, build |-> build,
                   rid |-> best.rid,
                   outcome |-> IF best.panicked THEN "panic"
                               ELSE IF best.rid = 0 THEN "no LSIF range at position"
                               ELSE "ok"]
    /\ UNCHANGED nonQuery

NextQuery ==
    \E ranges \in Indexes, pos \in Pos, build \in Builds :
        query_definition(ranges, pos, build)

Init ==
    /\ OrchInit /\ LspInit /\ ClientInit /\ AgentInit /\ TablesInit /\ DapInit
    /\ ServerInit
    /\ ConvInit
    /\ lspUpstream = <<>>
    /\ RequestInit
    /\ AdvertInit
    /\ CallInit
    /\ QueryInit

Next ==
    \/ set_upstream_peer
    \/ \E p \in Procs : \E id \in SpawnIds(p), hs \in {"ok", "closed", "error"} :
          spawn_agent(p, id, hs)
    \/ \E id \in AllIds : kill_agent(id)
    \/ \E p \in Procs : AgentExit(p)
    \/ \E c \in Calls, id \in AllIds : rpc_call_register(c, id)
    \/ \E c \in Calls : rpc_call_send(c)
    \/ \E c \in Calls : rpc_call_return(c)
    \/ \E p \in Procs : \E n \in ReplyIds(p), kind \in {"result", "error"} :
          read_response(p, n, kind)
    \/ \E p \in Procs, why \in {"agent terminated", "agent read error"} :
          read_teardown(p, why)
    \/ \E p \in Procs : read_notification(p)
    \/ \E p \in Procs, rid \in RequestIds, method \in RequestMethods :
          read_request(p, rid, method)
    \/ \E p \in Procs : emit_approval_event(p)
    \/ \E p \in Procs : approval_decided(p)
    \/ \E p \in Procs : approval_timeout(p)
    \/ \E p \in Procs : approval_cancelled(p)
    \/ \E key \in AllKeys : \E d \in DecisionsFor(key) : decide_approval(key, d)

Spec == Init /\ [][Next]_vars

NextLsp ==
    \/ \E c \in LspCalls, tool \in Tools, explicit \in ExplicitCmds, uri \in Uris,
          file \in Files :
          \E method \in ToolMethods(tool) :
              tool_call_begin(c, tool, method, explicit, uri, file)
    \/ \E c \in LspCalls, hs \in Handshakes : ensure_started(c, hs)
    \/ \E c \in LspCalls : write_did_open(c)
    \/ \E c \in LspCalls : write_request(c)
    \/ \E c \in LspCalls, kind \in {"result", "error", "eof"} :
          read_response_lsp(c, kind)
    \/ \E c \in LspCalls : handle_server_request(c)
    \/ \E q \in HelperProcs : HelperExit(q)

SpecLsp == Init /\ [][NextLsp]_vars

SpecClient == Init /\ [][NextClient]_vars

SpecInit == Init /\ [][NextInit]_vars

SpecTables == Init /\ [][NextTables]_vars

SpecDap == Init /\ [][NextDap]_vars

SpecConv == Init /\ [][NextConv]_vars

SpecRequest == Init /\ [][NextRequest]_vars

SpecAdvert == Init /\ [][NextAdvert]_vars

SpecCall == Init /\ [][NextCall]_vars

SpecQuery == Init /\ [][NextQuery]_vars

SpecServer == Init /\ [][NextServer]_vars

\* spawn_blocking runs every forwarded call to its end
SpecServerFair ==
    SpecServer /\ \A f \in Forwards : WF_vars(ForwardStep(f))

(***************************************************************************)
(* Part I - properties                                                     *)
(***************************************************************************)

IsReply(v) == v.kind \in {"result", "error"}

C1_Delivered ==
    \A c \in Calls :
        (callPc[c] \in {"registered", "waiting"} /\ IsReply(chan[c]))
            => chan[c].id = callId[c]

C1_Step ==
    \A p \in Procs : \A n \in ReplyIds(p), kind \in {"result", "error"} :
        read_response(p, n, kind) =>
            /\ \A c \in Calls :
                  chan'[c] # chan[c] =>
                      /\ callId[c] = n
                      /\ callProc[c] = p
                      /\ chan'[c] = [kind |-> kind, id |-> n]
            /\ (n \notin pending[p] => UNCHANGED vars)

\* C1: with any number of rpc_calls in flight on one agent and the replies
\* in any order, the value a caller's receiver holds is the result or error
\* carrying the id of the request that caller sent; a reply changes the
\* receiver of no other caller, and a reply whose id has no pending entry
\* changes nothing.
C1_RepliesReachTheirCaller == []C1_Delivered /\ [][C1_Step]_vars

\* two calls in flight on one agent, the later one answered first
C1_Witness ==
    \E c1, c2 \in Calls :
        /\ callPc[c1] = "waiting" /\ callPc[c2] = "waiting"
        /\ callProc[c1] = callProc[c2]
        /\ callId[c1] < callId[c2]
        /\ chan[c1] = Empty
        /\ IsReply(chan[c2]) /\ chan[c2].id = callId[c2]

\* C2: once an approval has timed out its key is no longer decidable:
\* list_pending_approvals does not list it and decide_approval on it is an
\* error.
C2_TimedOutKeyNotDecidable ==
    \A k \in timedOut : k \notin list_pending_approvals /\ ~decide_result(k)

\* C3: no rpc_call on an agent whose read loop has ended (end of stream or
\* read error) waits forever: a caller that waits on an empty channel while
\* the read loop has exited is never woken, since only the read loop sends
\* on that channel.
C3_NoCallerWaitsForever ==
    \A c \in Calls :
        ~(callPc[c] = "waiting" /\ chan[c] = Empty /\ loopPc[callProc[c]] = "exited")

\* C4: every entry rpc_call inserts is removed by the matching reply or by
\* the teardown drain: an entry in a pending map belongs to a call that has
\* not returned, and no entry is left once the read loop has exited.
C4_NoEntryOutlivesCallOrLoop ==
    /\ \A p \in Procs : \A n \in pending[p] :
          \E c \in CallOf(n) : callProc[c] = p
    /\ \A p \in Procs : loopPc[p] = "exited" => pending[p] = {}

\* C5: each approval request gets one reply, {decision: d} after
\* decide_approval delivered d and {decision: "deny"} after the timeout, and
\* none before one of the two has happened.
C5_ReplyOnlyAfterDecisionOrTimeout ==
    \A p \in Procs : \A i \in DOMAIN replies[p] :
        replies[p][i].cause # "generic" =>
            /\ \/ replies[p][i].cause = "decided"
               \/ replies[p][i].cause = "timeout" /\ replies[p][i].decision = "deny"
            /\ \A j \in DOMAIN replies[p] :
                  j # i => replies[p][j].seq # replies[p][i].seq

C6_Decided == \A k \in decided : ~decide_result(k)

C6_Step ==
    \A k \in AllKeys : \A d \in DecisionsFor(k) :
        decide_approval(k, d) =>
            IF decide_result(k)
              THEN k \notin list_pending_approvals' /\ k \in decided'
              ELSE list_pending_approvals' = list_pending_approvals

\* C6: a registered key accepts one decision: decide_approval on a listed
\* key succeeds and removes it, from then on (until the key is registered
\* again) decide_approval on it is a key-not-found error, and
\* decide_approval on a key that is not registered leaves the pending set
\* as it was.
C6_KeyDecidableOnce == []C6_Decided /\ [][C6_Step]_vars

\* a decision was delivered and written, and its key is no longer decidable
C6_Witness ==
    \E p \in Procs : \E i \in DOMAIN replies[p] :
        /\ replies[p][i].cause = "decided"
        /\ ApprovalKey(agentId[p], replies[p][i].rid) \in decided
        /\ ~decide_result(ApprovalKey(agentId[p], replies[p][i].rid))

ApprovalEvent(p) ==
    [kind |-> "approval_request", agentId |-> agentId[p], key |-> CurKey(p),
     proc |-> p, seq |-> cur[p].seq]

C28_Step ==
    /\ \A p \in Procs : \A id \in SpawnIds(p), hs \in {"ok", "closed", "error"} :
          spawn_agent(p, id, hs)
              => list_agents' = IF hs = "ok"
                                THEN list_agents \cup {SpawnId(p, id)}
                                ELSE list_agents
    /\ \A id \in AllIds :
          kill_agent(id)
              => IF id \in list_agents
                 THEN /\ kill_result(id) = "Ok"
                      /\ list_agents' = list_agents \ {id}
                      /\ child'[agents[id]] = "exited"
                      /\ require_agent(agents', id) = "agent not found"
                 ELSE /\ kill_result(id) = "agent not found"
                      /\ UNCHANGED ovars
    /\ list_agents' # list_agents
          => \/ \E p \in Procs : \E id \in SpawnIds(p) : spawn_agent(p, id, "ok")
             \/ \E id \in AllIds : kill_agent(id)

\* a call naming an id that is not listed is not forwarded
C28_UnknownRefused ==
    \A id \in AllIds \ list_agents :
        /\ require_agent(agents, id) = "agent not found"
        /\ \A c \in Calls : ~ENABLED rpc_call_register(c, id)

\* C28: list_agents is exactly the ids spawned with a completed handshake
\* and not killed since; kill_agent of a listed id ends its child and
\* removes the record, so that calls naming the id find no agent;
\* kill_agent of an unknown id fails and changes nothing.
C28_ListSpawnKill == []C28_UnknownRefused /\ [][C28_Step]_vars

C28_Witness ==
    /\ agents["agent-1"] = NoProc
    /\ agentId[1] = "agent-1"
    /\ loopPc[1] # "none"
    /\ child[1] = "exited"
    /\ list_agents = {AutoId(2)}
    /\ kill_result("agent-1") = "agent not found"

\* C30: every notification read from an agent has gone upstream exactly
\* once, as a logging-message notification whose data carries the agent id
\* and the event {method, params}; events[p] is in the order the read loop
\* of p read them.
C30_NotificationsForwarded ==
    \A p \in Procs : \A i \in DOMAIN events[p] :
        events[p][i].kind = "notification"
            => /\ Len(events[p][i].upstream) = 1
               /\ "agentId" \in DOMAIN events[p][i].upstream[1].data
               /\ events[p][i].upstream[1].data.agentId = agentId[p]
               /\ events[p][i].upstream[1].data.event = NotificationPayload

(***************************************************************************)
(* Part II - properties                                                    *)
(***************************************************************************)

\* a request (a frame with an id) about a document, other than an open or
\* a close of it
NamesDocument(f) ==
    f.uri # "" /\ f.id > 0 /\ f.method \notin {DidOpen, DidClose}

\* C8: a request naming a document URI is written to a helper process only
\* after that same process was sent a textDocument/didOpen for the URI,
\* with no didClose for it since.
C8_DidOpenBeforeRequest ==
    \A j \in DOMAIN frames :
        NamesDocument(frames[j]) =>
            \E i \in 1..(j - 1) :
                /\ frames[i].proc = frames[j].proc
                /\ frames[i].uri = frames[j].uri
                /\ frames[i].method = DidOpen
                /\ \A k \in (i + 1)..(j - 1) :
                      ~(/\ frames[k].proc = frames[j].proc
                        /\ frames[k].uri = frames[j].uri
                        /\ frames[k].method = DidClose)

\* the frames a call wrote about its document: all but the start-up
\* handshake and the responses to server-initiated requests
IsDocFrame(c, f) == f.call = c /\ f.uri # ""
DocFrameAt(c) == {i \in DOMAIN frames : IsDocFrame(c, frames[i])}
DocMethods(c) ==
    LET Keep(f) == IsDocFrame(c, f)
        kept == SelectSeq(frames, Keep)
    IN  [i \in DOMAIN kept |-> kept[i].method]

Done(c) == lcall[c].pc = "done"

\* C9 as stated: a tool call naming a document the pool had not associated
\* writes exactly two frames about it, the synthesized didOpen and then the
\* request, with no frame of another call between them; after such a call
\* succeeded a later call on the same URI writes only the request frame.
C9_TwoFramesThenOne ==
    /\ \A c \in LspCalls :
          (Done(c) /\ lcall[c].unknown) =>
              /\ DocMethods(c) = <<DidOpen, lcall[c].method>>
              /\ \A i, j \in DocFrameAt(c) : \A k \in (i + 1)..(j - 1) :
                    frames[k].call = c
    /\ \A c1, c2 \in LspCalls :
          (/\ c1 < c2 /\ Done(c1) /\ Done(c2)
           /\ lcall[c1].unknown /\ lcall[c1].result = "Ok"
           /\ lcall[c2].uri = lcall[c1].uri)
              => DocMethods(c2) = <<lcall[c2].method>>

\* the tools whose handler synthesizes an open: the positional tools and
\* lsp_call with a method other than didOpen and didClose
AutoOpens(c) ==
    \/ lcall[c].tool_name = "lsp_definition"
    \/ lcall[c].tool_name = "lsp_call" /\ lcall[c].method \notin {DidOpen, DidClose}

\* C9: amended.  A positional tool call, or an lsp_call whose method is
\* neither didOpen nor didClose, that names a document the pool has not
\* associated with any helper and that succeeds has written to the chosen
\* helper, apart from the start-up handshake and responses to
\* server-initiated requests, exactly the synthesized didOpen and then the
\* request, with no frame of any other call between them; such a call on a
\* document that is associated when it starts, and that succeeds, has
\* written only the request frame.
C9_AutoOpenThenRequest ==
    \A c \in LspCalls :
        (Done(c) /\ lcall[c].result = "Ok" /\ AutoOpens(c)) =>
            /\ \A i \in DocFrameAt(c) : frames[i].cmd = lcall[c].cmd
            /\ IF lcall[c].unknown
                 THEN /\ DocMethods(c) = <<DidOpen, lcall[c].method>>
                      /\ \A i, j \in DocFrameAt(c) : \A k \in (i + 1)..(j - 1) :
                            frames[k].call = c
                 ELSE DocMethods(c) = <<lcall[c].method>>

\* a call opened the document and succeeded, and a later call on the same
\* document, on the same helper, wrote its request only
C9_Witness ==
    \E c1, c2 \in LspCalls :
        /\ c1 < c2 /\ Done(c1) /\ Done(c2)
        /\ AutoOpens(c1) /\ AutoOpens(c2)
        /\ lcall[c1].result = "Ok" /\ lcall[c2].result = "Ok"
        /\ lcall[c1].unknown /\ ~lcall[c2].unknown
        /\ lcall[c1].cmd = lcall[c2].cmd
        /\ DocMethods(c1) = <<DidOpen, lcall[c1].method>>
        /\ DocMethods(c2) = <<lcall[c2].method>>

C10_Step ==
    \A c \in LspCalls :
        (/\ ~Done(c) /\ lcall'[c].pc = "done"
         /\ lcall'[c].tool_name \in {"lsp_call", "lsp_notify"}
         /\ lcall'[c].method \in {DidOpen, DidClose}) =>
            IF lcall'[c].result = "Ok"
              THEN doc_servers'[lcall'[c].uri] =
                      IF lcall'[c].method = DidOpen THEN lcall'[c].cmd ELSE NoCmd
              ELSE doc_servers' = IF lcall[c].pc = "idle" THEN doc_servers
                                  ELSE lcall[c].docs0

\* C10: an lsp_call or lsp_notify with method didOpen leaves the document
\* associated with the helper when it succeeds, one with method didClose
\* leaves it unassociated when it succeeds, and one that fails leaves the
\* association table as it was when the call started.
C10_AssociationFollowsSuccess == [][C10_Step]_vars
InFlight(c) == lcall[c].pc \notin {"idle", "done"}

\* C20: at most one request is in flight on a helper at a time: between a
\* call's first frame and its response or failure no other call writes to
\* or reads from that helper, so the calls in flight are at most one and
\* the frames of a call on a helper are not interleaved with another's.
C20_OneInFlightPerHelper ==
    /\ \A c1, c2 \in LspCalls : (InFlight(c1) /\ InFlight(c2)) => c1 = c2
    /\ \A c \in LspCalls : InFlight(c) <=> c \in poolLock
    /\ \A i, j \in DOMAIN frames : \A k \in (i + 1)..(j - 1) :
          (frames[i].call = frames[j].call /\ frames[k].proc = frames[i].proc)
              => frames[k].call = frames[i].call
    /\ \A c \in LspCalls :
          lcall[c].pc = "idle" => \A i \in DOMAIN frames : frames[i].call # c

C20_Witness ==
    \E c1, c2 \in LspCalls : \E i, j \in DOMAIN frames :
        /\ Done(c1) /\ lcall[c2].pc = "await"
        /\ i < j
        /\ frames[i].call = c1 /\ frames[j].call = c2
        /\ frames[i].proc = frames[j].proc
        /\ Running(lcall[c2].cmd)

\* A call c that names another helper than cmd can take its first step.
CanBeginOnOther(c, cmd) ==
    ENABLED (\E tool \in Tools, explicit \in ExplicitCmds, uri \in Uris,
                file \in Files :
                \E method \in ToolMethods(tool) :
                    /\ resolve_command(explicit, uri) # cmd
                    /\ build_did_open_params(file) = "ok"
                    /\ tool_call_begin(c, tool, method, explicit, uri, file))

\* C21: requests against different helpers may run in parallel: while a
\* request is in flight on one helper, the next call, for another helper,
\* can be started (and so written and answered) without waiting.
C21_OtherHelperNotBlocked ==
    \A c1, c2 \in LspCalls :
        (lcall[c1].pc = "await" /\ lcall[c2].pc = "idle"
            /\ \A b \in 1..(c2 - 1) : lcall[b].pc # "idle"
            /\ \E explicit \in ExplicitCmds, uri \in Uris :
                  resolve_command(explicit, uri) # lcall[c1].cmd)
            => CanBeginOnOther(c2, lcall[c1].cmd)

Refused(c) == Done(c) /\ lcall[c].result \in {"too large", "missing"}

\* A call that was refused for its document has written no frame.
C24_NoFrame ==
    \A c \in LspCalls : Refused(c) => \A i \in DOMAIN frames : frames[i].call # c

\* The first step of a call that has to open its document: a document on
\* disk of at most 2 MiB lets the call go on, any other ends it with the
\* reason, and nothing of the pool is touched.
C24_Step ==
    \A c \in LspCalls, tool \in Tools, explicit \in ExplicitCmds, uri \in Uris,
       file \in Files :
        \A method \in ToolMethods(tool) :
            (tool_call_begin(c, tool, method, explicit, uri, file)
                /\ NeedOpen(tool, method, has_document(uri)))
                => IF file.on_disk /\ file.len <= MAX_INLINE_DOC_BYTES
                   THEN lcall'[c].pc = "ensure_open"
                   ELSE /\ lcall'[c].pc = "done"
                        /\ lcall'[c].result =
                              (IF file.on_disk THEN "too large" ELSE "missing")
                        /\ UNCHANGED <<frames, helper, managers, doc_servers>>

\* C24: a document to be auto-opened that is larger than 2 MiB or not on
\* disk makes the call fail with the reason, with no frame written, no
\* helper started and no association recorded; exactly 2 MiB is accepted.
C24_AutoOpenRefused == []C24_NoFrame /\ [][C24_Step]_vars

C24_Witness ==
    \E c1, c2 \in LspCalls :
        /\ Done(c1) /\ lcall[c1].result = "Ok"
        /\ lcall[c2].result = "too large" /\ Done(c2)
        /\ \E i \in DOMAIN frames : frames[i].call = c1
        /\ ~has_document(lcall[c2].uri)

(***************************************************************************)
(* Part III - properties of the LanguageServerManager                      *)
(***************************************************************************)

\* A turn of one of the two read loops that reads a well-formed message.
ReadsMessage(line, res, msg) ==
    /\ hs_read(line, res, msg) \/ await_read(line, res, msg)
    /\ ReadOutcome(line, res) = "msg"

\* C11: while the client waits for the reply to its own request id N, in
\* the handshake or in a request, a message that carries both a method and
\* an id is answered at once and the wait goes on: it is never taken as the
\* awaited reply, whatever its id, N included.
C11_ServerRequestAnsweredNeverTaken ==
    [][\A inp \in ReadInputs : \A msg \in Messages(op.id) :
          (ReadsMessage(inp[1], inp[2], msg) /\ msg.hasMethod /\ msg.id # 0)
              => /\ Len(wire') = Len(wire) + 1
                 /\ wire'[Len(wire')].kind = "response"
                 /\ wire'[Len(wire')].id = msg.id
                 /\ op'.pc = op.pc]_vars

\* C31: a notification that a read loop of the client reads while it waits
\* for a reply, in the handshake or in a request, goes upstream as a
\* notification.
C31_NotificationForwarded ==
    [][\A inp \in ReadInputs : \A msg \in Messages(op.id) :
          (ReadsMessage(inp[1], inp[2], msg) /\ msg.hasMethod /\ msg.id = 0)
              => Len(lspUpstream') = Len(lspUpstream) + 1]_vars

\* C12: after a request failed with a transport failure the helper counts
\* as dead: the next call does not write to or read from the streams that
\* failed, it starts a fresh child.
C12_FailedHelperNotReused ==
    op.pc \in {"send", "await"} => lsm.child \notin failed

\* C13: if the handshake fails after the child was spawned, the child is
\* torn down with the error: no process that was spawned and never
\* registered is left running.
C13_NoChildLeftAfterFailedHandshake ==
    \A p \in Procs : child[p] = "running" => loopPc[p] # "none"

\* C15: shutdown returns after a bounded wait whatever the helper does, also
\* when it never answers the shutdown request and never exits: stop_child
\* is never blocked in its read on a helper that stays alive and silent.
C15_ShutdownNotBlockedBySilentHelper ==
    ~(op.kind = "shutdown" /\ op.pc = "stop_read" /\ cproc[lsm.child] = "hung")

\* C16: on every path out of shutdown, the failing ones included, the
\* streams are dropped, the capability record is cleared, the next
\* identifier is 1 and the read mode is the initial one for the write
\* preference.
C16_ShutdownResetsOnEveryPath ==
    (op.pc = "idle" /\ op.kind = "shutdown")
        => /\ ~lsm.streams
           /\ ~lsm.server_capabilities
           /\ lsm.next_id = 1
           /\ lsm.read_mode = initial_read_mode(lsm.write_pref)

IsToolFrame(f) == f.method = "tool"

\* The frames of a call go to a child that was handshaken, and that runs
\* the override command when the call names one.
C17_Handshaken ==
    /\ \A i \in 1..Len(wire) :
          /\ wire[i].proc = wire[1].proc
          /\ IsToolFrame(wire[i]) =>
                /\ wire[1].method = "initialize"
                /\ \E j \in 2..(i - 1) : wire[j].method = "initialized"
    /\ op.pc \in {"send", "await"} =>
          /\ lsm.child # NoProc
          /\ Len(wire) > 0 /\ wire[1].proc = lsm.child
          /\ op.override # NoCmd => lsm.current_cmd = op.override

\* What ensure_started does with the child it finds, and when a child is
\* spawned.
C17_Step ==
    /\ (op.pc = "ensure" /\ op'.pc # "ensure" /\ lsm.child # NoProc) =>
          IF cproc[lsm.child] # "exited"
                /\ (op.override = NoCmd \/ op.override = lsm.current_cmd)
          THEN /\ op'.pc \in {"send", "idle"}
               /\ UNCHANGED <<lsm, cproc, wire>>
          ELSE /\ op'.pc \in {"stop", "idle"}
               /\ op'.pc = "stop" => op'.cont = "start"
               /\ UNCHANGED wire
    /\ (op.pc # "start" /\ op'.pc = "start" /\ lsm.child # NoProc) =>
          /\ cproc'[lsm.child] = "exited"
          /\ lsm'.child = NoProc
    /\ lsm'.child # lsm.child =>
          \/ lsm'.child = NoProc
          \/ /\ lsm.child = NoProc
             /\ ~lsm.streams
             /\ cproc[lsm'.child] = "none"
             /\ cproc'[lsm'.child] = "running"

\* C17: ensure_started stops an exited child, or one that runs another
\* command than the override, and spawns and handshakes a new one before
\* any frame of the triggering call is written; a child that is alive and
\* runs the requested command is left as it is; the client never holds
\* more than one child.
C17_RestartBeforeFirstFrame == []C17_Handshaken /\ [][C17_Step]_vars

C17_Witness ==
    /\ op.pc = "await"
    /\ op.override = "alt-ls"
    /\ lsm.current_cmd = "alt-ls"
    /\ lsm.child = 2
    /\ cproc[1] = "exited"
    /\ Len(wire) = 3

RequestFrames == {i \in 1..Len(wire) : wire[i].kind = "request"}

\* C18: within one helper's life the ids of the requests written are 1 for
\* initialize and then strictly increasing, the first tool request has
\* id 2, and after shutdown the counter is back at 1.
C18_IdsPerHelperLife ==
    /\ Len(wire) > 0 => (wire[1].method = "initialize" /\ wire[1].id = 1)
    /\ \A i, j \in RequestFrames : i < j => wire[i].id < wire[j].id
    /\ \A i \in RequestFrames :
          (IsToolFrame(wire[i]) /\ \A j \in RequestFrames : j < i => ~IsToolFrame(wire[j]))
              => wire[i].id = 2
    /\ (op.pc = "idle" /\ op.kind = "shutdown") => lsm.next_id = 1

\* A read of the manager, in any of its three places.
Reads(line, res) ==
    \/ stop_read(line, res)
    \/ \E msg \in Messages(op.id) : hs_read(line, res, msg) \/ await_read(line, res, msg)

\* With the auto preference the frames written to the helper that is held
\* are length-prefixed while its read mode is unknown, and a newline frame
\* is never followed by a length-prefixed one on the same helper.
C19_Frames ==
    lsm.write_pref = "Auto" =>
        /\ (lsm.child # NoProc /\ lsm.read_mode \in {NoFraming, "ContentLength"}) =>
              \A i \in 1..Len(wire) : wire[i].framing = "ContentLength"
        /\ \A i, j \in 1..Len(wire) :
              (i < j /\ wire[i].framing = "Newline") => wire[j].framing = "Newline"

\* How the read mode moves under the auto preference, and the framing of
\* the frame a step writes.
C19_Step ==
    (lsm.write_pref = "Auto" /\ lsm'.write_pref = "Auto" /\ lsm'.child = lsm.child) =>
        /\ \A inp \in ReadInputs :
              (Reads(inp[1], inp[2]) /\ lsm.read_mode = NoFraming) =>
                  lsm'.read_mode =
                      IF inp[2] \in {"eof", "malformed", "non-utf8"} THEN NoFraming
                      ELSE IF inp[1] \in {"{", "["} THEN "Newline"
                      ELSE IF inp[1] = "Content-Length:" THEN "ContentLength"
                      ELSE NoFraming
        /\ (lsm.read_mode = NoFraming /\ lsm'.read_mode # NoFraming) =>
              \E inp \in ReadInputs : Reads(inp[1], inp[2]) /\ inp[2] \in {"msg", "unparsable"}
        /\ (lsm.read_mode # NoFraming /\ lsm'.read_mode # lsm.read_mode) =>
              (op.pc \in {"stop", "stop_wait"} /\ lsm'.read_mode = NoFraming)
        /\ (Len(wire') = Len(wire) + 1) =>
              wire'[Len(wire')].framing =
                  IF lsm'.read_mode = NoFraming THEN "ContentLength" ELSE lsm'.read_mode

\* C19: with the auto preference the read mode is unknown until the first
\* inbound message, is fixed by it (newline when its first line opens a
\* JSON value, length-prefixed otherwise) and stays until the helper is
\* stopped; outbound frames are length-prefixed before the detection and
\* use the detected mode after it.
C19_AutoFramingSticky == []C19_Frames /\ [][C19_Step]_vars

C19_Witness ==
    /\ lsm.write_pref = "Auto"
    /\ lsm.read_mode = "Newline"
    /\ op.pc = "await"
    /\ Len(wire) = 3
    /\ wire[1].framing = "ContentLength"
    /\ wire[3].framing = "Newline"

(***************************************************************************)
(* Part IV - properties of Manager::initialize                             *)
(***************************************************************************)

\* C14: after the initialize request is sent the handshake loop ends only
\* on the reply to its id, notifications and responses for other ids
\* neither end nor fail it, and every server-initiated request read
\* meanwhile is answered: as many responses are written as requests read.
C14_HandshakeAnswersServerRequests ==
    /\ \A i \in 1..Len(initReads) :
          initReads[i].kind = "Notification"
              \/ (initReads[i].kind # "closed" /\ initReads[i].kind # "transport error"
                    /\ initReads[i].id # initId)
              => (i < Len(initReads) \/ initPc = "reading")
    /\ Cardinality({i \in 1..Len(initReads) : initReads[i].kind = "Request"})
          = Cardinality({j \in 1..Len(initWrites) : initWrites[j] = "response"})

(***************************************************************************)
(* Part V - properties of the pool tables                                  *)
(***************************************************************************)

Lookup(map, key) == IF key \in DOMAIN map THEN map[key] ELSE NoCmd

\* The five sources of a command, in the order of their precedence; NoCmd
\* where a source has nothing to offer.
Candidates(explicit, uri, language) ==
    <<explicit,
      IF uri = NoUri THEN NoCmd ELSE Lookup(tbl.doc_servers, normalize_uri(uri)),
      IF language = NoLang THEN NoCmd
      ELSE Lookup(tbl.lang_map, to_ascii_lowercase(language)),
      IF uri = NoUri THEN NoCmd
      ELSE Lookup(tbl.ext_map, extension_from_uri(normalize_uri(uri))),
      tbl.default_cmd>>

FirstGiven(seq) ==
    IF \A i \in DOMAIN seq : seq[i] = NoCmd THEN NoServer
    ELSE seq[CHOOSE i \in DOMAIN seq :
                 seq[i] # NoCmd /\ \A j \in 1..(i - 1) : seq[j] = NoCmd]

\* Only resolve_command writes resolved: what it returned for its arguments
\* against the tables of that moment.
C22_Step ==
    resolved' # resolved =>
        /\ resolved'.out =
              FirstGiven(Candidates(resolved'.explicit, resolved'.uri,
                                    resolved'.language))
        /\ tbl' = tbl

OthersKept(key) ==
    \A k \in DocKeys \ {key} :
        /\ k \in DOMAIN tbl'.doc_servers <=> k \in DOMAIN tbl.doc_servers
        /\ k \in DOMAIN tbl.doc_servers => tbl'.doc_servers[k] = tbl.doc_servers[k]

C23_Keys == tbl.built => DOMAIN tbl.doc_servers \subseteq DocKeys

C23_Step ==
    (tbl.built /\ tbl' # tbl) =>
    /\ \A uri \in RawUris, cmd \in Cmds :
          pool_associate(uri, cmd) =>
              /\ DOMAIN tbl'.doc_servers = DOMAIN tbl.doc_servers \cup {normalize_uri(uri)}
              /\ tbl'.doc_servers[normalize_uri(uri)] = cmd
              /\ OthersKept(normalize_uri(uri))
    /\ \A uri \in RawUris, last \in Cmds \cup {NoCmd} :
          pool_release(uri, last) =>
              /\ DOMAIN tbl'.doc_servers = DOMAIN tbl.doc_servers \ {normalize_uri(uri)}
              /\ OthersKept(normalize_uri(uri))
              /\ tbl'.managers = tbl.managers

\* C23: the document table has at most one association per normalized
\* URI; opening adds exactly the entry of that URI, opening again adds no
\* second one, closing removes exactly that entry and leaves the helper
\* it pointed to in the pool, also when it was the last of its command.
C23_DocumentAccounting == []C23_Keys /\ [][C23_Step]_vars

C23_Witness ==
    /\ tbl.built
    /\ "pylsp" \in tbl.managers
    /\ DOMAIN tbl.doc_servers = {"file:///tmp/c.RS"}
    /\ tbl.doc_servers["file:///tmp/c.RS"] = "alt-ls"
    /\ tbl.last_server = "alt-ls"


\* C26: once shutdown_all has returned, the shutdown of every manager it
\* found has been called and the manager map, the document table and the
\* last-used pointer are empty, whatever the managers reported.
C26_ShutdownAllClearsPool ==
    down # NotDown =>
        /\ down.called = down.found
        /\ tbl.managers = {}
        /\ tbl.doc_servers = <<>>
        /\ tbl.last_server = NoCmd


(***************************************************************************)
(* Part VI - properties of the DapAdapterManager                           *)
(***************************************************************************)
\* the adapter the manager holds cannot serve the call
Stale(override_cmd) ==
    /\ dap.made /\ dap.child # NoProc
    /\ \/ dproc[dap.child].state = "exited"
       \/ override_cmd # NoCmd /\ override_cmd # dproc[dap.child].cmd

\* C25: a request on a manager whose adapter has exited, or that names
\* another adapter command than the running one, leaves the manager with a
\* new adapter (the old one stopped) unless the new one could not be
\* started.
C25_Step ==
    (nDap' = nDap + 1 /\ dres'.op = "request" /\ Stale(dres'.override))
        => \/ dres'.out \in {"spawn failed", "not configured"}
           \/ /\ dap'.child # dap.child
              /\ dproc'[dap.child].state = "exited"
C25_StaleAdapterReplaced == [][C25_Step]_vars


(***************************************************************************)
(* Part VII - properties of the OrchestratorServer                         *)
(***************************************************************************)
Waiting(f) == fwd[f].pc \in {"lock", "recv"}

\* the child was killed and nothing it wrote is still unread
Quiet(p) ==
    /\ sproc[p].state = "killed"
    /\ sproc[p].pipe = <<>>
    /\ sproc[p].chan = <<>>

C27_KillEnabled == \A id \in DOMAIN sagents : ENABLED handle_kill_agent(id)

C27_Step ==
    /\ \A id \in AgentIds :
          (id \in DOMAIN sagents /\ handle_kill_agent(id))
              => /\ id \notin DOMAIN sagents'
                 /\ sproc'[sagents[id]].state = "killed"
                 /\ kres' = [agent |-> id, out |-> "ok"]
                 /\ fwd' = fwd
    /\ \A f \in Forwards :
          (Waiting(f) /\ Quiet(fwd[f].proc))
              => /\ sproc'[fwd[f].proc].pipe = <<>>
                 /\ sproc'[fwd[f].proc].chan = <<>>
                 /\ sproc'[fwd[f].proc].state = "killed"
                 /\ fwd'[f].pc = "done" => fwd'[f].result \in InternalErrors
                 /\ fwd'[f].pc \in {"lock", "recv", "done"}

C27_Ends ==
    \A f \in Forwards :
        (Waiting(f) /\ Quiet(fwd[f].proc))
            ~> (fwd[f].pc = "done" /\ fwd[f].result \in InternalErrors)

Storing(k) ==
    /\ conv[k].kind \in StoringKinds
    /\ conv[k].reply.ok
    /\ conversation_id_of(conv[k].reply.value) # NoCid

Supplied(obj) == obj.conversationId # NoCid \/ obj.conversation_id # NoCid

C29_Step ==
    /\ \A k \in ConvCalls :
          conv_return(k)
              => /\ last_conversation_id'[conv[k].agent] =
                       IF Storing(k)
                       THEN conversation_id_of(conv[k].reply.value)
                       ELSE last_conversation_id[conv[k].agent]
                 /\ \A b \in ConvAgents \ {conv[k].agent} :
                       last_conversation_id'[b] = last_conversation_id[b]
    /\ last_conversation_id' # last_conversation_id
          => \E k \in ConvCalls : conv_return(k) /\ Storing(k)
    /\ \A k \in ConvCalls, kind \in InjectingKinds, a \in ConvAgents,
          payload \in Payloads :
          conv_send(k, kind, a, payload)
              => conv'[k].sent =
                    IF ~Supplied(payload) /\ last_conversation_id[a] # NoCid
                    THEN [payload EXCEPT
                             !.conversationId = last_conversation_id[a]]
                    ELSE payload

C37_ResponseMatchesRequest ==
    \A f \in Forwards :
        (fwd[f].pc = "done" /\ fwd[f].result = "agentResponse")
            => fwd[f].line = <<"response", f>>

\* C38: while an approval request of an agent waits for its decision, the
\* read loop of that agent can take the agent's other inbound messages: a
\* response to a call in flight is delivered to its caller and a
\* notification is forwarded, before the decision and before the timeout.
C38_ReaderServesWhileWaiting ==
    \A p \in Procs :
        (loopPc[p] = "waiting" /\ apprRx[p] = "open" /\ child[p] = "running")
            => /\ \A c \in Calls :
                    (callPc[c] = "waiting" /\ callProc[c] = p)
                        => ENABLED read_response(p, callId[c], "result")
               /\ (inbound < MaxInbound /\ Work < MaxWork)
                        => ENABLED read_notification(p)

\* C39: every running agent process whose record was registered is
\* reachable under its id (listed by list_agents, found by kill_agent)
\* until it is killed; a spawn_agent with a registered id does not replace
\* the record of a process that still runs.
C39_RunningAgentReachable ==
    \A p \in Procs :
        (child[p] = "running" /\ loopPc[p] # "none")
            => agents[agentId[p]] = p

\* frame i is a didOpen the bridge synthesized for a tool call: the call
\* that wrote it asked for another method
Synthesized(i) ==
    /\ frames[i].method = DidOpen
    /\ lcall[frames[i].call].method # DidOpen

\* C40: the bridge writes a synthesized didOpen for a document to a helper
\* process at most once until the document is closed: between two of them
\* for the same document and process there is a didClose of the document.
C40_DidOpenOncePerDocument ==
    \A i, j \in DOMAIN frames :
        (/\ i < j
         /\ Synthesized(i) /\ Synthesized(j)
         /\ frames[i].uri = frames[j].uri
         /\ frames[i].proc = frames[j].proc)
            => \E k \in (i + 1)..(j - 1) :
                  /\ frames[k].method = DidClose
                  /\ frames[k].uri = frames[i].uri

CapabilityOf ==
    [lsp_hover |-> "hoverProvider", lsp_completion |-> "completionProvider",
     lsp_completion_item_resolve |-> "completionProvider",
     lsp_rename |-> "renameProvider", lsp_prepare_rename |-> "renameProvider",
     dap_configuration_done |-> "supportsConfigurationDoneRequest"]

\* the record says nothing in favour of the tool
Unsupported(caps, t) ==
    /\ t \in DOMAIN CapabilityOf
    /\ \/ caps[CapabilityOf[t]] \in {"absent", "false"}
       \/ /\ t \in {"lsp_completion_item_resolve", "lsp_prepare_rename"}
          /\ caps[CapabilityOf[t]] # "object_flag"
       \/ /\ t = "dap_configuration_done"
          /\ caps[CapabilityOf[t]] # "true"

\* C33: with no capability record the full catalog is advertised; with a
\* record the generic call tool is advertised, a tool is removed only if
\* the record does not support it, and dap_configuration_done is listed
\* exactly when supportsConfigurationDoneRequest is true.
C33_ToolAdvertisement ==
    advertised.bridge # "none" =>
        LET catalog == IF advertised.bridge = "lsp" THEN LspCatalog ELSE DapCatalog
            call == IF advertised.bridge = "lsp" THEN "lsp_call" ELSE "dap_call"
        IN  IF advertised.caps = NoCaps
            THEN advertised.tools = catalog
            ELSE /\ call \in advertised.tools
                 /\ \A t \in catalog \ advertised.tools :
                        Unsupported(advertised.caps, t)
                 /\ advertised.bridge = "dap" =>
                        ("dap_configuration_done" \in advertised.tools
                            <=> advertised.caps.supportsConfigurationDoneRequest = "true")


(***************************************************************************)
(* Part XI - properties of the tools/call dispatch                         *)
(***************************************************************************)
\* C34: in every bridge a tools/call with a name outside the catalog fails
\* with code -32602 and an error that names the tool, and no helper is
\* started or written to.
C34_UnknownToolInvalidParams ==
    (called.bridge # "none" /\ called.name # "known") =>
        /\ called.reply.code = 0 - 32602
        /\ called.reply.names_tool
        /\ ~called.reply.downstream

\* the call of the last tools/call has invalid arguments: a required field
\* is missing or of the wrong type, or the document to open is too large or
\* not on disk
InvalidArguments ==
    /\ called.bridge = "lsp"
    /\ called.name = "known"
    /\ \/ called.args # "ok"
       \/ ~called.file.on_disk
       \/ called.file.len > MAX_INLINE_DOC_BYTES

\* C35: an LSP tool call with invalid arguments is answered with code
\* -32602 and before any downstream work.
C35_InvalidArgumentsReported ==
    InvalidArguments =>
        /\ called.reply.code = 0 - 32602
        /\ ~called.reply.downstream


(***************************************************************************)
(* Part XII - properties of the LSIF queries                               *)
(***************************************************************************)
\* the ranges of the queried document that contain the position
Containing ==
    {i \in 1..Len(queried.ranges) :
        /\ queried.ranges[i].doc = 1
        /\ pos_leq(queried.ranges[i].span.start, queried.pos)
        /\ pos_lt(queried.pos, queried.ranges[i].span.end)}

\* span a lies within span b and is not b
Within(a, b) ==
    /\ pos_leq(b.start, a.start)
    /\ pos_leq(a.end, b.end)
    /\ a # b

\* C36: a query answers from a range of the queried document that contains
\* the position and has the smallest span among those that do (none of
\* them lies within it); it fails exactly when no range contains the
\* position.
C36_SmallestContainingRange ==
    queried.outcome # "none" =>
        IF Containing = {}
        THEN queried.outcome = "no LSIF range at position"
        ELSE /\ queried.outcome = "ok"
             /\ queried.rid \in Containing
             /\ \A i \in Containing :
                    ~Within(queried.ranges[i].span,
                            queried.ranges[queried.rid].span)

=============================================================================
